---- MODULE Spec2Model ----
(***************************************************************************)
(* A model of jsoncons' basic_json_view (include/jsoncons/json_view.hpp):  *)
(* the tagged-union Value, the non-owning json_const_pointer variant       *)
(* (a "View"), copy construction/assignment, the accessors and mutators,   *)
(* and the comparison operators.                                           *)
(*                                                                         *)
(* A Value is a record whose field "kind" is the storage_kind              *)
(* discriminator and whose field "tag" is the semantic_tag; the payload    *)
(* field depends on the kind:                                              *)
(*     bool_value                        b      BOOLEAN                    *)
(*     int64_value, uint64_value         i      integer                    *)
(*     half_value                        h      the 16 raw bits            *)
(*     double_value                      d      a Dbl record (see below)   *)
(*     short_string_value, long_string_value   s   sequence of char codes  *)
(*     byte_string_value                 bytes  sequence of bytes          *)
(*     array_value                       elems  sequence of Values         *)
(*     object_value                      members  sequence of              *)
(*                                       [key, value], sorted by key       *)
(*     json_const_pointer                p      address of the referent    *)
(* Live Values that can be pointed at are the slots of "store"; the        *)
(* address of a slot a is <<a>>, the address of element i of the container *)
(* at address q is q \o <<i>>, and <<>> is the address of a temporary.     *)
(***************************************************************************)
EXTENDS Integers, Sequences, FiniteSets, TLC

VARIABLES
    store,   \* store[a]: the Value held by the live object at address a
    res,     \* outcome of the last member-function or operator call
    calls    \* number of constructor, assignment and mutator calls made so far

vars == <<store, res, calls>>

(***************************************************************************)
(* Bounds of the model.                                                    *)
(***************************************************************************)
\* width in bits of the model's int64_t / uint64_t (64 in the program)
IntBits == 6
\* width in bits of the significand of the model's double (53 in the program)
DoubleBits == 4
\* largest number of elements / members a container is grown to
MaxSize == 2
\* number of constructor, assignment and mutator calls in a run
MaxCalls == 2

Addr == {1, 2, 3}
Keys == {<<1>>, <<2>>}

(***************************************************************************)
(* storage_kind and the integer types.                                     *)
(***************************************************************************)
storage_kind(k) ==
    CASE k = "null_value"         -> 0
      [] k = "bool_value"         -> 1
      [] k = "int64_value"        -> 2
      [] k = "uint64_value"       -> 3
      [] k = "half_value"         -> 4
      [] k = "double_value"       -> 5
      [] k = "short_string_value" -> 6
      [] k = "long_string_value"  -> 7
      [] k = "byte_string_value"  -> 8
      [] k = "array_value"        -> 9
      [] k = "empty_object_value" -> 10
      [] k = "object_value"       -> 11
      [] k = "json_const_pointer" -> 12

Int64Max == 2^(IntBits - 1) - 1
Int64Min == -(2^(IntBits - 1))
UInt64Max == 2^IntBits - 1

\* static_cast<uint64_t>(x) of an int64_t x
ToUInt64(x) == x % (2^IntBits)

\* short_string_storage::capacity and ::max_length
short_string_capacity == 14
short_string_max_length == short_string_capacity - 1

(***************************************************************************)
(* double: [cls, neg, m, e] stands for NaN (cls = "nan"), an infinity      *)
(* (cls = "inf") or the number (-1)^neg * m * 2^e (cls = "num").           *)
(***************************************************************************)
DblNum(neg, m, e) == [cls |-> "num", neg |-> neg, m |-> m, e |-> e]
DblNaN == [cls |-> "nan", neg |-> FALSE, m |-> 0, e |-> 0]
DblInf(neg) == [cls |-> "inf", neg |-> neg, m |-> 0, e |-> 0]

Min2(a, b) == IF a < b THEN a ELSE b

\* the number of d, scaled by 2^(-e0), as an integer (e0 <= d.e unless d is 0)
DblScaled(d, e0) ==
    IF d.m = 0 THEN 0 ELSE (IF d.neg THEN -1 ELSE 1) * d.m * 2^(d.e - e0)

\* the exponent that counts when two numbers are brought to a common scale
DblExp(d) == IF d.m = 0 THEN 0 ELSE d.e

\* -1, 0, 1: the order of two doubles neither of which is NaN
DblCmp(x, y) ==
    CASE x.cls = "inf" /\ y.cls = "inf" ->
            IF x.neg = y.neg THEN 0 ELSE IF x.neg THEN -1 ELSE 1
      [] x.cls = "inf" -> IF x.neg THEN -1 ELSE 1
      [] y.cls = "inf" -> IF y.neg THEN 1 ELSE -1
      [] OTHER ->
            LET e0 == Min2(DblExp(x), DblExp(y))
                a == DblScaled(x, e0)
                b == DblScaled(y, e0)
            IN  IF a < b THEN -1 ELSE IF a > b THEN 1 ELSE 0

\* operator== and operator< of double
DblEq(x, y) == x.cls # "nan" /\ y.cls # "nan" /\ DblCmp(x, y) = 0
DblLt(x, y) == x.cls # "nan" /\ y.cls # "nan" /\ DblCmp(x, y) < 0

\* number of bits of n >= 0
BitLen(n) == CHOOSE k \in 0..(IntBits + 1) : n < 2^k /\ (k = 0 \/ n >= 2^(k - 1))

\* static_cast<double>(x) of an integer x: round to nearest, ties to even,
\* when x has more significant bits than the significand holds
IntToDouble(x) ==
    LET n == IF x < 0 THEN -x ELSE x
        s == BitLen(n) - DoubleBits
    IN  IF s <= 0 THEN DblNum(x < 0, n, 0)
        ELSE LET q == n \div 2^s
                 r == n % 2^s
                 h == 2^(s - 1)
                 up == r > h \/ (r = h /\ q % 2 = 1)
             IN  DblNum(x < 0, IF up THEN q + 1 ELSE q, s)

\* jsoncons::detail::decode_half: IEEE 754 binary16 to double
decode_half(h) ==
    LET sign == (h \div 32768) % 2 = 1
        ex == (h \div 1024) % 32
        mant == h % 1024
    IN  CASE ex = 0  -> DblNum(sign, mant, -24)
          [] ex = 31 -> IF mant = 0 THEN DblInf(sign) ELSE DblNaN
          [] OTHER   -> DblNum(sign, 1024 + mant, ex - 25)

(***************************************************************************)
(* Constructors of basic_json_view.                                        *)
(***************************************************************************)
NullV(tag) == [kind |-> "null_value", tag |-> tag]
EmptyObjectV(tag) == [kind |-> "empty_object_value", tag |-> tag]
BoolV(b, tag) == [kind |-> "bool_value", tag |-> tag, b |-> b]
Int64V(i, tag) == [kind |-> "int64_value", tag |-> tag, i |-> i]
UInt64V(i, tag) == [kind |-> "uint64_value", tag |-> tag, i |-> i]
HalfV(h, tag) == [kind |-> "half_value", tag |-> tag, h |-> h]
DoubleV(d, tag) == [kind |-> "double_value", tag |-> tag, d |-> d]
ByteStringV(bytes, tag) == [kind |-> "byte_string_value", tag |-> tag, bytes |-> bytes]
ArrayV(elems, tag) == [kind |-> "array_value", tag |-> tag, elems |-> elems]
ObjectV(members, tag) == [kind |-> "object_value", tag |-> tag, members |-> members]

\* basic_json_view(const char_type* s, std::size_t length, semantic_tag tag)
StringV(s, tag) ==
    IF Len(s) <= short_string_max_length
    THEN [kind |-> "short_string_value", tag |-> tag, s |-> s]
    ELSE [kind |-> "long_string_value", tag |-> tag, s |-> s]

\* the Value a json_const_pointer Value refers to
Referent(st, v) == st[v.p]

\* semantic_tag tag() const
RECURSIVE tag(_, _)
tag(st, v) ==
    IF v.kind = "json_const_pointer" THEN tag(st, Referent(st, v)) ELSE v.tag

\* basic_json_view(json_const_pointer_arg_t, const basic_json_view* p); p = 0 is nullptr
ConstPointerV(st, p) ==
    IF p = 0 THEN NullV("none")
    ELSE [kind |-> "json_const_pointer", tag |-> tag(st, st[p]), p |-> p]

\* key_value<key_type, basic_json_view>
IsView(v) == v.kind = "json_const_pointer"

KeyValue(k, v) == [key |-> k, value |-> v]

(***************************************************************************)
(* std::basic_string / std::vector comparison of sequences of integers.    *)
(***************************************************************************)
RECURSIVE SeqLess(_, _)
SeqLess(s, t) ==
    IF t = <<>> THEN FALSE
    ELSE IF s = <<>> THEN TRUE
    ELSE IF Head(s) < Head(t) THEN TRUE
    ELSE IF Head(t) < Head(s) THEN FALSE
    ELSE SeqLess(Tail(s), Tail(t))

(***************************************************************************)
(* operator==(const basic_json_view& lhs, const basic_json_view& rhs).     *)
(* x is the Value at address ax, y the Value at address ay.                *)
(***************************************************************************)
IsString(k) == k \in {"short_string_value", "long_string_value"}

RECURSIVE Eq(_, _, _, _, _)

\* json_array::operator== : std::vector equality of the elements
ArrayEq(st, xs, ax, ys, ay) ==
    /\ Len(xs) = Len(ys)
    /\ \A i \in 1..Len(xs) : Eq(st, xs[i], ax \o <<i>>, ys[i], ay \o <<i>>)

\* json_object::operator== : std::vector equality of the key_value members
ObjectEq(st, xs, ax, ys, ay) ==
    /\ Len(xs) = Len(ys)
    /\ \A i \in 1..Len(xs) :
          /\ xs[i].key = ys[i].key
          /\ Eq(st, xs[i].value, ax \o <<i>>, ys[i].value, ay \o <<i>>)

\* std::size_t size() const
RECURSIVE size(_, _)
size(st, v) ==
    CASE v.kind = "array_value"        -> Len(v.elems)
      [] v.kind = "empty_object_value" -> 0
      [] v.kind = "object_value"       -> Len(v.members)
      [] v.kind = "json_const_pointer" -> size(st, Referent(st, v))
      [] OTHER                         -> 0

Eq(st, x, ax, y, ay) ==
    IF ax # <<>> /\ ax = ay THEN TRUE
    ELSE
    CASE x.kind = "json_const_pointer" ->
            IF y.kind = "json_const_pointer"
            THEN Eq(st, Referent(st, x), <<x.p>>, Referent(st, y), <<y.p>>)
            ELSE Eq(st, Referent(st, x), <<x.p>>, y, ay)
      [] x.kind # "json_const_pointer" /\ y.kind = "json_const_pointer" ->
            Eq(st, x, ax, Referent(st, y), <<y.p>>)
      [] x.kind = "null_value" -> y.kind = "null_value"
      [] x.kind = "empty_object_value" ->
            CASE y.kind = "empty_object_value" -> TRUE
              [] y.kind = "object_value"       -> size(st, y) = 0
              [] OTHER                         -> FALSE
      [] x.kind = "bool_value" -> y.kind = "bool_value" /\ x.b = y.b
      [] x.kind = "int64_value" ->
            CASE y.kind = "int64_value"  -> x.i = y.i
              [] y.kind = "uint64_value" -> IF x.i >= 0 THEN ToUInt64(x.i) = y.i ELSE FALSE
              [] y.kind = "half_value"   -> DblEq(IntToDouble(x.i), decode_half(y.h))
              [] y.kind = "double_value" -> DblEq(IntToDouble(x.i), y.d)
              [] OTHER                   -> FALSE
      [] x.kind = "uint64_value" ->
            CASE y.kind = "int64_value"  -> IF y.i >= 0 THEN x.i = ToUInt64(y.i) ELSE FALSE
              [] y.kind = "uint64_value" -> x.i = y.i
              [] y.kind = "half_value"   -> DblEq(IntToDouble(x.i), decode_half(y.h))
              [] y.kind = "double_value" -> DblEq(IntToDouble(x.i), y.d)
              [] OTHER                   -> FALSE
      [] x.kind = "half_value" ->
            IF y.kind = "half_value" THEN x.h = y.h
            ELSE Eq(st, DoubleV(decode_half(x.h), "none"), <<>>, y, ay)
      [] x.kind = "double_value" ->
            CASE y.kind = "int64_value"  -> DblEq(x.d, IntToDouble(y.i))
              [] y.kind = "uint64_value" -> DblEq(x.d, IntToDouble(y.i))
              [] y.kind = "half_value"   -> DblEq(x.d, decode_half(y.h))
              [] y.kind = "double_value" -> DblEq(x.d, y.d)
              [] OTHER                   -> FALSE
      [] IsString(x.kind) -> IsString(y.kind) /\ x.s = y.s
      [] x.kind = "byte_string_value" ->
            y.kind = "byte_string_value" /\ x.bytes = y.bytes
      [] x.kind = "array_value" ->
            y.kind = "array_value" /\ ArrayEq(st, x.elems, ax, y.elems, ay)
      [] x.kind = "object_value" ->
            CASE y.kind = "empty_object_value" -> size(st, x) = 0
              [] y.kind = "object_value" -> ObjectEq(st, x.members, ax, y.members, ay)
              [] OTHER                   -> FALSE

\* operator!=
Ne(st, x, ax, y, ay) == ~Eq(st, x, ax, y, ay)

(***************************************************************************)
(* operator<(const basic_json_view& lhs, const basic_json_view& rhs).      *)
(* The result is "true", "false", or "unreachable" when the call runs     *)
(* into JSONCONS_UNREACHABLE(), after which the behaviour is undefined.    *)
(***************************************************************************)
B2S(b) == IF b THEN "true" ELSE "false"

\* (int)lhs.storage() < (int)rhs.storage()
StorageLess(x, y) == B2S(storage_kind(x.kind) < storage_kind(y.kind))

RECURSIVE Lt(_, _, _, _, _)

\* json_array::operator< : std::lexicographical_compare of the elements from i on
RECURSIVE ArrayLess(_, _, _, _, _, _)
ArrayLess(st, xs, ax, ys, ay, i) ==
    IF i > Len(ys) THEN "false"
    ELSE IF i > Len(xs) THEN "true"
    ELSE LET lt == Lt(st, xs[i], ax \o <<i>>, ys[i], ay \o <<i>>)
         IN  IF lt # "false" THEN lt
             ELSE LET gt == Lt(st, ys[i], ay \o <<i>>, xs[i], ax \o <<i>>)
                  IN  IF gt = "unreachable" THEN gt
                      ELSE IF gt = "true" THEN "false"
                      ELSE ArrayLess(st, xs, ax, ys, ay, i + 1)

\* operator< of key_value: by key, then by value
KeyValueLess(st, m, am, n, an) ==
    IF SeqLess(m.key, n.key) THEN "true"
    ELSE IF m.key = n.key THEN Lt(st, m.value, am, n.value, an)
    ELSE "false"

\* json_object::operator< : std::lexicographical_compare of the members from i on
RECURSIVE ObjectLess(_, _, _, _, _, _)
ObjectLess(st, xs, ax, ys, ay, i) ==
    IF i > Len(ys) THEN "false"
    ELSE IF i > Len(xs) THEN "true"
    ELSE LET lt == KeyValueLess(st, xs[i], ax \o <<i>>, ys[i], ay \o <<i>>)
         IN  IF lt # "false" THEN lt
             ELSE LET gt == KeyValueLess(st, ys[i], ay \o <<i>>, xs[i], ax \o <<i>>)
                  IN  IF gt = "unreachable" THEN gt
                      ELSE IF gt = "true" THEN "false"
                      ELSE ObjectLess(st, xs, ax, ys, ay, i + 1)

Lt(st, x, ax, y, ay) ==
    IF ax # <<>> /\ ax = ay THEN "false"
    ELSE
    CASE x.kind = "json_const_pointer" ->
            IF y.kind = "json_const_pointer"
            THEN Lt(st, Referent(st, x), <<x.p>>, Referent(st, y), <<y.p>>)
            ELSE Lt(st, Referent(st, x), <<x.p>>, y, ay)
      [] x.kind = "null_value" -> StorageLess(x, y)
      [] x.kind = "empty_object_value" ->
            CASE y.kind = "empty_object_value" -> "false"
              [] y.kind = "object_value"       -> B2S(size(st, y) # 0)
              [] y.kind = "json_const_pointer" -> Lt(st, x, ax, Referent(st, y), <<y.p>>)
              [] OTHER                         -> StorageLess(x, y)
      [] x.kind = "bool_value" ->
            CASE y.kind = "bool_value"         -> B2S(~x.b /\ y.b)
              [] y.kind = "json_const_pointer" -> Lt(st, x, ax, Referent(st, y), <<y.p>>)
              [] OTHER                         -> StorageLess(x, y)
      [] x.kind = "int64_value" ->
            CASE y.kind = "int64_value"  -> B2S(x.i < y.i)
              [] y.kind = "uint64_value" -> IF x.i >= 0 THEN B2S(ToUInt64(x.i) < y.i) ELSE "true"
              [] y.kind = "double_value" -> B2S(DblLt(IntToDouble(x.i), y.d))
              [] y.kind = "json_const_pointer" -> Lt(st, x, ax, Referent(st, y), <<y.p>>)
              [] OTHER                   -> StorageLess(x, y)
      [] x.kind = "uint64_value" ->
            CASE y.kind = "int64_value"  -> IF y.i >= 0 THEN B2S(x.i < ToUInt64(y.i)) ELSE "false"
              [] y.kind = "uint64_value" -> B2S(x.i < y.i)
              [] y.kind = "double_value" -> B2S(DblLt(IntToDouble(x.i), y.d))
              [] y.kind = "json_const_pointer" -> Lt(st, x, ax, Referent(st, y), <<y.p>>)
              [] OTHER                   -> StorageLess(x, y)
      [] x.kind = "double_value" ->
            CASE y.kind = "int64_value"  -> B2S(DblLt(x.d, IntToDouble(y.i)))
              [] y.kind = "uint64_value" -> B2S(DblLt(x.d, IntToDouble(y.i)))
              [] y.kind = "double_value" -> B2S(DblLt(x.d, y.d))
              [] y.kind = "json_const_pointer" -> Lt(st, x, ax, Referent(st, y), <<y.p>>)
              [] OTHER                   -> StorageLess(x, y)
      [] IsString(x.kind) ->
            CASE IsString(y.kind)              -> B2S(SeqLess(x.s, y.s))
              [] y.kind = "json_const_pointer" -> Lt(st, x, ax, Referent(st, y), <<y.p>>)
              [] OTHER                         -> StorageLess(x, y)
      [] x.kind = "byte_string_value" ->
            CASE y.kind = "byte_string_value"  -> B2S(SeqLess(x.bytes, y.bytes))
              [] y.kind = "json_const_pointer" -> Lt(st, x, ax, Referent(st, y), <<y.p>>)
              [] OTHER                         -> StorageLess(x, y)
      [] x.kind = "array_value" ->
            CASE y.kind = "array_value"        -> ArrayLess(st, x.elems, ax, y.elems, ay, 1)
              [] y.kind = "json_const_pointer" -> Lt(st, x, ax, Referent(st, y), <<y.p>>)
              [] OTHER                         -> StorageLess(x, y)
      [] x.kind = "object_value" ->
            CASE y.kind = "empty_object_value" -> "false"
              [] y.kind = "object_value"       -> ObjectLess(st, x.members, ax, y.members, ay, 1)
              [] y.kind = "json_const_pointer" -> Lt(st, x, ax, Referent(st, y), <<y.p>>)
              [] OTHER                         -> StorageLess(x, y)
      [] OTHER -> "unreachable"

\* operator<=, operator>, operator>= in terms of operator<
Not3(r) == IF r = "unreachable" THEN r ELSE B2S(r = "false")
Le(st, x, ax, y, ay) == Not3(Lt(st, y, ay, x, ax))
Gt(st, x, ax, y, ay) == Not3(Le(st, x, ax, y, ay))
Ge(st, x, ax, y, ay) == Not3(Lt(st, x, ax, y, ay))

(***************************************************************************)
(* The comparison operators applied to the Values of three live objects.   *)
(***************************************************************************)
LongText == <<1, 1, 1, 1, 1, 1, 1, 1, 1, 1, 1, 1, 1, 1>>

\* the raw bits of the half with sign bit s, exponent field e and fraction m
HalfBits(s, e, m) == s * 32768 + e * 1024 + m

CmpLeaves ==
    { NullV("none"), BoolV(TRUE, "none"),
      Int64V(-1, "none"), Int64V(0, "none"), Int64V(Int64Max, "none"),
      UInt64V(0, "none"), UInt64V(UInt64Max, "none"),
      HalfV(HalfBits(0, 0, 0), "none"), HalfV(HalfBits(1, 0, 0), "none"),
      HalfV(HalfBits(0, 15, 0), "none"),
      DoubleV(DblNum(FALSE, 0, 0), "none"), DoubleV(IntToDouble(Int64Max), "none"),
      DoubleV(DblNaN, "none"),
      StringV(<<1>>, "none"), StringV(LongText, "none"),
      ByteStringV(<<1>>, "none") }

CmpContainers ==
    { ArrayV(<<>>, "none"), ArrayV(<<Int64V(0, "none")>>, "none"),
      EmptyObjectV("none"), ObjectV(<<>>, "none"),
      ObjectV(<<KeyValue(<<1>>, Int64V(0, "none"))>>, "none") }

CmpValues == CmpLeaves \cup CmpContainers

\* the third object: a View of the first or of the second, or one of a few Values
CmpThird(st) ==
    { ConstPointerV(st, 1), ConstPointerV(st, 2),
      Int64V(0, "none"), ArrayV(<<ConstPointerV(st, 1)>>, "none") }

CmpInit ==
    /\ \E x \in CmpValues, y \in CmpValues :
          LET st == [a \in Addr |-> IF a = 1 THEN x ELSE y]
          IN  \E z \in CmpThird(st) : store = [st EXCEPT ![3] = z]
    /\ res = [op |-> "init"]
    /\ calls = 0

\* what a call of operator< and its kin returns: any bool once the call has
\* run into JSONCONS_UNREACHABLE()
Outcomes3(r) == IF r = "unreachable" THEN BOOLEAN ELSE {r = "true"}

CmpResult(op, a, b, v, u) ==
    [op |-> op, lhs |-> a, rhs |-> b, val |-> v, unreachable |-> u]

CompareEq(a, b) ==
    /\ res' = CmpResult("==", a, b, Eq(store, store[a], <<a>>, store[b], <<b>>), FALSE)
    /\ UNCHANGED <<store, calls>>

CompareNe(a, b) ==
    /\ res' = CmpResult("!=", a, b, Ne(store, store[a], <<a>>, store[b], <<b>>), FALSE)
    /\ UNCHANGED <<store, calls>>

CompareLt(a, b) ==
    LET r == Lt(store, store[a], <<a>>, store[b], <<b>>)
    IN  /\ \E v \in Outcomes3(r) : res' = CmpResult("<", a, b, v, r = "unreachable")
        /\ UNCHANGED <<store, calls>>

CompareLe(a, b) ==
    LET r == Le(store, store[a], <<a>>, store[b], <<b>>)
    IN  /\ \E v \in Outcomes3(r) : res' = CmpResult("<=", a, b, v, r = "unreachable")
        /\ UNCHANGED <<store, calls>>

CompareGt(a, b) ==
    LET r == Gt(store, store[a], <<a>>, store[b], <<b>>)
    IN  /\ \E v \in Outcomes3(r) : res' = CmpResult(">", a, b, v, r = "unreachable")
        /\ UNCHANGED <<store, calls>>

CompareGe(a, b) ==
    LET r == Ge(store, store[a], <<a>>, store[b], <<b>>)
    IN  /\ \E v \in Outcomes3(r) : res' = CmpResult(">=", a, b, v, r = "unreachable")
        /\ UNCHANGED <<store, calls>>

CmpNext ==
    \E a \in Addr, b \in Addr :
        \/ CompareEq(a, b)
        \/ CompareNe(a, b)
        \/ CompareLt(a, b)
        \/ CompareLe(a, b)
        \/ CompareGt(a, b)
        \/ CompareGe(a, b)

SpecCmp == CmpInit /\ [][CmpNext]_vars

(***************************************************************************)
(* The const accessors.  A call either returns a value, Ok(v), or throws,  *)
(* Err(e); an accessor is modelled by the set of outcomes a call can have  *)
(* (one outcome, unless the call has undefined behaviour).                 *)
(***************************************************************************)
Ok(v) == [ok |-> TRUE, val |-> v]
Err(e) == [ok |-> FALSE, err |-> e]

\* static_cast<int64_t>(x) of a uint64_t x
ToInt64(x) == ((x + 2^(IntBits - 1)) % (2^IntBits)) - 2^(IntBits - 1)

\* json_object::find: index of the member with key k, 0 for end()
ObjectFind(members, k) ==
    IF \E i \in 1..Len(members) : members[i].key = k
    THEN CHOOSE i \in 1..Len(members) :
            /\ members[i].key = k
            /\ \A j \in 1..(i - 1) : members[j].key # k
    ELSE 0

RECURSIVE is_null(_, _)
is_null(st, v) ==
    CASE v.kind = "null_value"         -> TRUE
      [] v.kind = "json_const_pointer" -> is_null(st, Referent(st, v))
      [] OTHER                         -> FALSE

RECURSIVE is_string(_, _)
is_string(st, v) ==
    CASE IsString(v.kind)              -> TRUE
      [] v.kind = "json_const_pointer" -> is_string(st, Referent(st, v))
      [] OTHER                         -> FALSE

RECURSIVE is_byte_string(_, _)
is_byte_string(st, v) ==
    CASE v.kind = "byte_string_value"  -> TRUE
      [] v.kind = "json_const_pointer" -> is_byte_string(st, Referent(st, v))
      [] OTHER                         -> FALSE

RECURSIVE is_bool(_, _)
is_bool(st, v) ==
    CASE v.kind = "bool_value"         -> TRUE
      [] v.kind = "json_const_pointer" -> is_bool(st, Referent(st, v))
      [] OTHER                         -> FALSE

RECURSIVE is_object(_, _)
is_object(st, v) ==
    CASE v.kind \in {"empty_object_value", "object_value"} -> TRUE
      [] v.kind = "json_const_pointer" -> is_object(st, Referent(st, v))
      [] OTHER                         -> FALSE

RECURSIVE is_array(_, _)
is_array(st, v) ==
    CASE v.kind = "array_value"        -> TRUE
      [] v.kind = "json_const_pointer" -> is_array(st, Referent(st, v))
      [] OTHER                         -> FALSE

RECURSIVE is_int64(_, _)
is_int64(st, v) ==
    CASE v.kind = "int64_value"        -> TRUE
      [] v.kind = "uint64_value"       -> v.i <= Int64Max
      [] v.kind = "json_const_pointer" -> is_int64(st, Referent(st, v))
      [] OTHER                         -> FALSE

RECURSIVE is_uint64(_, _)
is_uint64(st, v) ==
    CASE v.kind = "uint64_value"       -> TRUE
      [] v.kind = "int64_value"        -> v.i >= 0
      [] v.kind = "json_const_pointer" -> is_uint64(st, Referent(st, v))
      [] OTHER                         -> FALSE

RECURSIVE is_half(_, _)
is_half(st, v) ==
    CASE v.kind = "half_value"         -> TRUE
      [] v.kind = "json_const_pointer" -> is_half(st, Referent(st, v))
      [] OTHER                         -> FALSE

RECURSIVE is_double(_, _)
is_double(st, v) ==
    CASE v.kind = "double_value"       -> TRUE
      [] v.kind = "json_const_pointer" -> is_double(st, Referent(st, v))
      [] OTHER                         -> FALSE

\* an empty() without the case for an external reference
empty_unforwarded(st, v) ==
    CASE v.kind = "byte_string_value"  -> Len(v.bytes) = 0
      [] IsString(v.kind)              -> Len(v.s) = 0
      [] v.kind = "array_value"        -> Len(v.elems) = 0
      [] v.kind = "empty_object_value" -> TRUE
      [] v.kind = "object_value"       -> Len(v.members) = 0
      [] OTHER                         -> FALSE

RECURSIVE empty(_, _)
empty(st, v) ==
    CASE v.kind = "byte_string_value"  -> Len(v.bytes) = 0
      [] IsString(v.kind)              -> Len(v.s) = 0
      [] v.kind = "array_value"        -> Len(v.elems) = 0
      [] v.kind = "empty_object_value" -> TRUE
      [] v.kind = "object_value"       -> Len(v.members) = 0
      [] v.kind = "json_const_pointer" -> empty(st, Referent(st, v))
      [] OTHER                         -> FALSE

RECURSIVE contains(_, _, _)
contains(st, v, key) ==
    CASE v.kind = "object_value"       -> ObjectFind(v.members, key) # 0
      [] v.kind = "json_const_pointer" -> contains(st, Referent(st, v), key)
      [] OTHER                         -> FALSE

\* the length of the run of members with key `key` that starts at index i
RECURSIVE KeyRun(_, _, _)
KeyRun(members, key, i) ==
    IF i <= Len(members) /\ members[i].key = key
    THEN 1 + KeyRun(members, key, i + 1)
    ELSE 0

\* a count(key) that counts every entry with the key
RECURSIVE count_all(_, _, _)
count_all(st, v, key) ==
    CASE v.kind = "object_value" ->
            Cardinality({i \in 1..Len(v.members) : v.members[i].key = key})
      [] v.kind = "json_const_pointer" -> count_all(st, Referent(st, v), key)
      [] OTHER                         -> 0

RECURSIVE count(_, _, _)
count(st, v, key) ==
    CASE v.kind = "object_value" ->
            LET it == ObjectFind(v.members, key)
            IN  IF it = 0 THEN 0 ELSE KeyRun(v.members, key, it)
      [] v.kind = "json_const_pointer" -> count(st, Referent(st, v), key)
      [] OTHER                         -> 0

RECURSIVE as_bool(_, _)
as_bool(st, v) ==
    CASE v.kind = "bool_value"         -> {Ok(v.b)}
      [] v.kind = "int64_value"        -> {Ok(v.i # 0)}
      [] v.kind = "uint64_value"       -> {Ok(v.i # 0)}
      [] v.kind = "json_const_pointer" -> as_bool(st, Referent(st, v))
      [] OTHER                         -> {Err("domain_error")}

RECURSIVE as_string_view(_, _)
as_string_view(st, v) ==
    CASE IsString(v.kind)              -> {Ok(v.s)}
      [] v.kind = "json_const_pointer" -> as_string_view(st, Referent(st, v))
      [] OTHER                         -> {Err("domain_error")}

\* the decimal number written by the digit characters ds
RECURSIVE Decimal(_)
Decimal(ds) ==
    IF ds = <<>> THEN 0
    ELSE 10 * Decimal(SubSeq(ds, 1, Len(ds) - 1)) + (ds[Len(ds)] - 48)

IsDigits(s) == s # <<>> /\ \A i \in 1..Len(s) : s[i] \in 48..57

\* jsoncons::detail::to_integer<int64_t>: unsigned decimal text to int64_t
to_integer(s) ==
    IF IsDigits(s) /\ Len(s) <= 2 /\ Decimal(s) <= Int64Max
    THEN Ok(Decimal(s)) ELSE Err("runtime_error")

\* jsoncons::detail::to_double_t: unsigned decimal text to double
to_double(s) ==
    IF IsDigits(s) /\ Len(s) <= 2 /\ Decimal(s) <= Int64Max
    THEN Ok(IntToDouble(Decimal(s))) ELSE Err("invalid_argument")

\* static_cast<int64_t>(d) of a double d: the integer part when it is
\* representable, and otherwise undefined
DoubleToInt64(d) ==
    LET n == IF d.e >= 0 THEN d.m * 2^d.e ELSE d.m \div 2^(-d.e)
    IN  IF d.cls = "num" /\ n <= Int64Max
        THEN {IF d.neg THEN -n ELSE n}
        ELSE {Int64Min, 0, Int64Max}

\* T as_integer() const, with T = int64_t
RECURSIVE as_integer(_, _)
as_integer(st, v) ==
    CASE IsString(v.kind)              -> {to_integer(v.s)}
      [] v.kind = "half_value"         -> {Ok(v.h)}
      [] v.kind = "double_value"       -> {Ok(n) : n \in DoubleToInt64(v.d)}
      [] v.kind = "int64_value"        -> {Ok(v.i)}
      [] v.kind = "uint64_value"       -> {Ok(ToInt64(v.i))}
      [] v.kind = "bool_value"         -> {Ok(IF v.b THEN 1 ELSE 0)}
      [] v.kind = "json_const_pointer" -> as_integer(st, Referent(st, v))
      [] OTHER                         -> {Err("domain_error")}

RECURSIVE as_double(_, _)
as_double(st, v) ==
    CASE IsString(v.kind)              -> {to_double(v.s)}
      [] v.kind = "half_value"         -> {Ok(decode_half(v.h))}
      [] v.kind = "double_value"       -> {Ok(v.d)}
      [] v.kind = "int64_value"        -> {Ok(IntToDouble(v.i))}
      [] v.kind = "uint64_value"       -> {Ok(IntToDouble(v.i))}
      [] v.kind = "json_const_pointer" -> as_double(st, Referent(st, v))
      [] OTHER                         -> {Err("invalid_argument")}

\* T get_value_or(key, default_value) const, with T = int64_t
RECURSIVE get_value_or(_, _, _, _)
get_value_or(st, v, key, d) ==
    CASE v.kind \in {"null_value", "empty_object_value"} -> {Ok(d)}
      [] v.kind = "object_value" ->
            LET it == ObjectFind(v.members, key)
            IN  IF it # 0 THEN as_integer(st, v.members[it].value) ELSE {Ok(d)}
      [] v.kind = "json_const_pointer" -> get_value_or(st, Referent(st, v), key, d)
      [] OTHER                         -> {Err("not_an_object")}

\* json_object::at(i): the value of the i-th member (i counts from 0)
ObjectAt(members, i) ==
    IF i >= Len(members) THEN Err("out_of_range") ELSE Ok(members[i + 1].value)

\* const basic_json_view& at(const string_view_type& key) const
RECURSIVE at_key_const(_, _, _)
at_key_const(st, v, key) ==
    CASE v.kind = "empty_object_value" -> Err("key_not_found")
      [] v.kind = "object_value" ->
            LET it == ObjectFind(v.members, key)
            IN  IF it = 0 THEN Err("key_not_found") ELSE Ok(v.members[it].value)
      [] v.kind = "json_const_pointer" -> at_key_const(st, Referent(st, v), key)
      [] OTHER                         -> Err("not_an_object")

\* a non-const at(key) that forwards through an external reference,
\* as the const overload does
RECURSIVE at_key_forwarding(_, _, _)
at_key_forwarding(st, v, key) ==
    CASE v.kind = "empty_object_value" -> Err("key_not_found")
      [] v.kind = "object_value" ->
            LET it == ObjectFind(v.members, key)
            IN  IF it = 0 THEN Err("key_not_found") ELSE Ok(v.members[it].value)
      [] v.kind = "json_const_pointer" -> at_key_forwarding(st, Referent(st, v), key)
      [] OTHER                         -> Err("not_an_object")

\* basic_json_view& at(const string_view_type& name)
at_key(st, v, key) ==
    CASE v.kind = "empty_object_value" -> Err("key_not_found")
      [] v.kind = "object_value" ->
            LET it == ObjectFind(v.members, key)
            IN  IF it = 0 THEN Err("key_not_found") ELSE Ok(v.members[it].value)
      [] OTHER                         -> Err("not_an_object")

\* basic_json_view& at(std::size_t i)
at_index(st, v, i) ==
    CASE v.kind = "array_value" ->
            IF i >= Len(v.elems) THEN Err("out_of_range") ELSE Ok(v.elems[i + 1])
      [] v.kind = "object_value"       -> ObjectAt(v.members, i)
      [] OTHER                         -> Err("domain_error")

\* a const at(i) without the case for an external reference
at_index_const_unforwarded(st, v, i) ==
    CASE v.kind = "array_value" ->
            IF i >= Len(v.elems) THEN Err("out_of_range") ELSE Ok(v.elems[i + 1])
      [] v.kind = "object_value"       -> ObjectAt(v.members, i)
      [] OTHER                         -> Err("domain_error")

\* const basic_json_view& at(std::size_t i) const
RECURSIVE at_index_const(_, _, _)
at_index_const(st, v, i) ==
    CASE v.kind = "array_value" ->
            IF i >= Len(v.elems) THEN Err("out_of_range") ELSE Ok(v.elems[i + 1])
      [] v.kind = "object_value"       -> ObjectAt(v.members, i)
      [] v.kind = "json_const_pointer" -> at_index_const(st, Referent(st, v), i)
      [] OTHER                         -> Err("domain_error")

\* const_object_iterator find(const string_view_type& key) const: the index
\* of the member found, 0 for end()
RECURSIVE find_const(_, _, _)
find_const(st, v, key) ==
    CASE v.kind = "empty_object_value" -> Ok(0)
      [] v.kind = "object_value"       -> Ok(ObjectFind(v.members, key))
      [] v.kind = "json_const_pointer" -> find_const(st, Referent(st, v), key)
      [] OTHER                         -> Err("not_an_object")

\* const basic_json_view& at_or_null(const string_view_type& key) const
RECURSIVE at_or_null(_, _, _)
at_or_null(st, v, key) ==
    CASE v.kind \in {"null_value", "empty_object_value"} -> Ok(NullV("none"))
      [] v.kind = "object_value" ->
            LET it == ObjectFind(v.members, key)
            IN  IF it # 0 THEN Ok(v.members[it].value) ELSE Ok(NullV("none"))
      [] v.kind = "json_const_pointer" -> at_or_null(st, Referent(st, v), key)
      [] OTHER                         -> Err("not_an_object")

RECURSIVE is_number(_, _)
is_number(st, v) ==
    CASE v.kind \in {"int64_value", "uint64_value", "half_value", "double_value"} -> TRUE
      [] IsString(v.kind) -> tag(st, v) \in {"bigint", "bigdec", "bigfloat"}
      [] v.kind = "json_const_pointer" -> is_number(st, Referent(st, v))
      [] OTHER -> FALSE

(***************************************************************************)
(* The const accessors and at() called on three live objects: a document,  *)
(* and Views and containers of Views over it.  No call changes an object.  *)
(***************************************************************************)
ReadValues ==
    { NullV("none"), BoolV(TRUE, "none"), BoolV(FALSE, "none"),
      Int64V(-1, "none"), UInt64V(UInt64Max, "none"),
      HalfV(HalfBits(0, 15, 0), "none"),
      DoubleV(DblNum(FALSE, 3, -1), "none"), DoubleV(DblNaN, "none"),
      StringV(<<49>>, "bigint"), StringV(<<>>, "none"), StringV(LongText, "none"),
      ByteStringV(<<>>, "none"), ByteStringV(<<1>>, "base64"),
      ArrayV(<<>>, "none"),
      ArrayV(<<Int64V(0, "none"), StringV(<<1>>, "none")>>, "none"),
      EmptyObjectV("none"), ObjectV(<<>>, "none"),
      ObjectV(<<KeyValue(<<1>>, Int64V(0, "none"))>>, "none"),
      ObjectV(<<KeyValue(<<1>>, StringV(<<1>>, "none")),
                KeyValue(<<2>>, BoolV(TRUE, "none"))>>, "none") }

ReadSecond(st) ==
    { ConstPointerV(st, 1), ConstPointerV(st, 0),
      ArrayV(<<ConstPointerV(st, 1)>>, "none") }

ReadThird(st) ==
    { ConstPointerV(st, 2),
      ObjectV(<<KeyValue(<<2>>, ConstPointerV(st, 1))>>, "none") }

ReadInit ==
    /\ \E x \in ReadValues :
          LET st1 == [a \in Addr |-> x]
          IN  \E y \in ReadSecond(st1) :
                 LET st2 == [st1 EXCEPT ![2] = y]
                 IN  \E z \in ReadThird(st2) : store = [st2 EXCEPT ![3] = z]
    /\ res = [op |-> "init"]
    /\ calls = 0

Indices == 0..MaxSize
Defaults == {-1}

ReadResult(op, a, arg, out) == [op |-> op, a |-> a, arg |-> arg, out |-> out]

Call_is_null(a) ==
    /\ res' = ReadResult("is_null", a, <<>>, is_null(store, store[a]))
    /\ UNCHANGED <<store, calls>>
Call_is_string(a) ==
    /\ res' = ReadResult("is_string", a, <<>>, is_string(store, store[a]))
    /\ UNCHANGED <<store, calls>>
Call_is_byte_string(a) ==
    /\ res' = ReadResult("is_byte_string", a, <<>>, is_byte_string(store, store[a]))
    /\ UNCHANGED <<store, calls>>
Call_is_bool(a) ==
    /\ res' = ReadResult("is_bool", a, <<>>, is_bool(store, store[a]))
    /\ UNCHANGED <<store, calls>>
Call_is_object(a) ==
    /\ res' = ReadResult("is_object", a, <<>>, is_object(store, store[a]))
    /\ UNCHANGED <<store, calls>>
Call_is_array(a) ==
    /\ res' = ReadResult("is_array", a, <<>>, is_array(store, store[a]))
    /\ UNCHANGED <<store, calls>>
Call_is_int64(a) ==
    /\ res' = ReadResult("is_int64", a, <<>>, is_int64(store, store[a]))
    /\ UNCHANGED <<store, calls>>
Call_is_uint64(a) ==
    /\ res' = ReadResult("is_uint64", a, <<>>, is_uint64(store, store[a]))
    /\ UNCHANGED <<store, calls>>
Call_is_half(a) ==
    /\ res' = ReadResult("is_half", a, <<>>, is_half(store, store[a]))
    /\ UNCHANGED <<store, calls>>
Call_is_double(a) ==
    /\ res' = ReadResult("is_double", a, <<>>, is_double(store, store[a]))
    /\ UNCHANGED <<store, calls>>
Call_is_number(a) ==
    /\ res' = ReadResult("is_number", a, <<>>, is_number(store, store[a]))
    /\ UNCHANGED <<store, calls>>
Call_size(a) ==
    /\ res' = ReadResult("size", a, <<>>, size(store, store[a]))
    /\ UNCHANGED <<store, calls>>
Call_empty(a) ==
    /\ res' = ReadResult("empty", a, <<>>, empty(store, store[a]))
    /\ UNCHANGED <<store, calls>>
Call_tag(a) ==
    /\ res' = ReadResult("tag", a, <<>>, tag(store, store[a]))
    /\ UNCHANGED <<store, calls>>
Call_contains(a, key) ==
    /\ res' = ReadResult("contains", a, key, contains(store, store[a], key))
    /\ UNCHANGED <<store, calls>>
Call_count(a, key) ==
    /\ res' = ReadResult("count", a, key, count(store, store[a], key))
    /\ UNCHANGED <<store, calls>>
Call_find(a, key) ==
    /\ res' = ReadResult("find", a, key, find_const(store, store[a], key))
    /\ UNCHANGED <<store, calls>>
Call_at_or_null(a, key) ==
    /\ res' = ReadResult("at_or_null", a, key, at_or_null(store, store[a], key))
    /\ UNCHANGED <<store, calls>>

\* a call with undefined behaviour returns any one of its possible outcomes
Call_get_value_or(a, key, d) ==
    \E out \in get_value_or(store, store[a], key, d) :
       /\ res' = ReadResult("get_value_or", a, <<key, d>>, out)
       /\ UNCHANGED <<store, calls>>

Call_as_bool(a) ==
    \E out \in as_bool(store, store[a]) :
       /\ res' = ReadResult("as_bool", a, <<>>, out)
       /\ UNCHANGED <<store, calls>>

Call_as_integer(a) ==
    \E out \in as_integer(store, store[a]) :
       /\ res' = ReadResult("as_integer", a, <<>>, out)
       /\ UNCHANGED <<store, calls>>

Call_as_double(a) ==
    \E out \in as_double(store, store[a]) :
       /\ res' = ReadResult("as_double", a, <<>>, out)
       /\ UNCHANGED <<store, calls>>

Call_as_string_view(a) ==
    \E out \in as_string_view(store, store[a]) :
       /\ res' = ReadResult("as_string_view", a, <<>>, out)
       /\ UNCHANGED <<store, calls>>

Call_at_key_const(a, key) ==
    /\ res' = ReadResult("at_key_const", a, key, at_key_const(store, store[a], key))
    /\ UNCHANGED <<store, calls>>

Call_at_index_const(a, i) ==
    /\ res' = ReadResult("at_index_const", a, i, at_index_const(store, store[a], i))
    /\ UNCHANGED <<store, calls>>

\* the non-const at(): a call that throws leaves the object as it was
Call_at_key(a, key) ==
    /\ res' = ReadResult("at_key", a, key, at_key(store, store[a], key))
    /\ UNCHANGED <<store, calls>>
Call_at_index(a, i) ==
    /\ res' = ReadResult("at_index", a, i, at_index(store, store[a], i))
    /\ UNCHANGED <<store, calls>>

ReadNext ==
    \E a \in Addr :
       \/ Call_is_null(a)
       \/ Call_is_string(a)
       \/ Call_is_byte_string(a)
       \/ Call_is_bool(a)
       \/ Call_is_object(a)
       \/ Call_is_array(a)
       \/ Call_is_int64(a)
       \/ Call_is_uint64(a)
       \/ Call_is_half(a)
       \/ Call_is_double(a)
       \/ Call_is_number(a)
       \/ Call_size(a)
       \/ Call_empty(a)
       \/ Call_tag(a)
       \/ Call_as_bool(a)
       \/ Call_as_integer(a)
       \/ Call_as_double(a)
       \/ Call_as_string_view(a)
       \/ \E key \in Keys :
             \/ Call_contains(a, key)
             \/ Call_count(a, key)
             \/ Call_find(a, key)
             \/ Call_at_or_null(a, key)
             \/ Call_at_key_const(a, key)
             \/ Call_at_key(a, key)
             \/ \E d \in Defaults : Call_get_value_or(a, key, d)
       \/ \E i \in Indices :
             \/ Call_at_index_const(a, i)
             \/ Call_at_index(a, i)

SpecRead == ReadInit /\ [][ReadNext]_vars

\* the set of outcomes the accessor op can have on the Value v
Outcomes(op, st, v, arg) ==
    CASE op = "is_null"        -> {is_null(st, v)}
      [] op = "is_string"      -> {is_string(st, v)}
      [] op = "is_byte_string" -> {is_byte_string(st, v)}
      [] op = "is_bool"        -> {is_bool(st, v)}
      [] op = "is_object"      -> {is_object(st, v)}
      [] op = "is_array"       -> {is_array(st, v)}
      [] op = "is_int64"       -> {is_int64(st, v)}
      [] op = "is_uint64"      -> {is_uint64(st, v)}
      [] op = "is_half"        -> {is_half(st, v)}
      [] op = "is_double"      -> {is_double(st, v)}
      [] op = "is_number"      -> {is_number(st, v)}
      [] op = "size"           -> {size(st, v)}
      [] op = "empty"          -> {empty(st, v)}
      [] op = "tag"            -> {tag(st, v)}
      [] op = "contains"       -> {contains(st, v, arg)}
      [] op = "count"          -> {count(st, v, arg)}
      [] op = "find"           -> {find_const(st, v, arg)}
      [] op = "at_or_null"     -> {at_or_null(st, v, arg)}
      [] op = "get_value_or"   -> get_value_or(st, v, arg[1], arg[2])
      [] op = "as_bool"        -> as_bool(st, v)
      [] op = "as_integer"     -> as_integer(st, v)
      [] op = "as_double"      -> as_double(st, v)
      [] op = "as_string_view" -> as_string_view(st, v)
      [] op = "at_key_const"   -> {at_key_const(st, v, arg)}
      [] op = "at_index_const" -> {at_index_const(st, v, arg)}
      [] op = "at_key"         -> {at_key(st, v, arg)}
      [] op = "at_index"       -> {at_index(st, v, arg)}


\* the accessor called last was called on a View
CalledOnView == res.op # "init" /\ IsView(store[res.a])

\* the Value the View called last refers to
CalledReferent == Referent(store, store[res.a])

\* the read operations of a Value: as<T> is as_integer, as_double or
\* as_string_view, by T
ReadOps ==
    { "is_array", "is_object", "is_string", "is_byte_string", "is_bool",
      "is_int64", "is_uint64", "is_half", "is_double", "is_null", "is_number",
      "size", "empty", "contains", "count", "get_value_or", "as_bool",
      "as_integer", "as_double", "as_string_view", "tag" }

\* C1: every read operation called on a View over a live Value j returns
\* what the same operation returns on j (the same outcome, out of the same
\* set of possible outcomes), also when j is itself a View, and no read
\* operation changes an object: the View stays an external reference and j
\* stays as it was.
C1_ViewReadsForward ==
    /\ [](CalledOnView /\ res.op \in ReadOps =>
            /\ res.out \in Outcomes(res.op, store, CalledReferent, res.arg)
            /\ Outcomes(res.op, store, store[res.a], res.arg)
                  = Outcomes(res.op, store, CalledReferent, res.arg))
    /\ [][store' = store]_vars

\* a View of a View of an array with two elements has answered size() with 2
C1_Witness ==
    /\ res.op = "size" /\ res.a = 3 /\ res.out = 2
    /\ IsView(store[3]) /\ store[3].p = 2
    /\ IsView(store[2]) /\ store[2].p = 1
    /\ store[1].kind = "array_value"

AtOps == {"at_key", "at_index", "at_key_const", "at_index_const"}

\* the referent of the View called last is an owned array or object
ReferentIsContainer ==
    CalledReferent.kind \in {"array_value", "object_value", "empty_object_value"}

\* C3, as the claim states it: every overload of at(index) and at(key),
\* const or not, called on a View of a live array or object reports what
\* the same call reports on the referent.
C3_EveryAtOverloadForwards ==
    CalledOnView /\ res.op \in AtOps /\ ReferentIsContainer =>
       res.out \in Outcomes(res.op, store, CalledReferent, res.arg)

\* C3, amended: the const overloads of at(index) and at(key) called on a
\* View of a live array or object report what the same call reports on the
\* referent; the non-const overloads called on a View throw whatever the
\* referent holds, not_an_object for a key and domain_error for an index.
C3_ConstAtForwards ==
    /\ CalledOnView /\ res.op \in {"at_key_const", "at_index_const"}
          /\ ReferentIsContainer =>
          res.out \in Outcomes(res.op, store, CalledReferent, res.arg)
    /\ CalledOnView /\ res.op = "at_key" => res.out = Err("not_an_object")
    /\ CalledOnView /\ res.op = "at_index" => res.out = Err("domain_error")

\* the const at(1) called on a View of an array has returned the array's
\* second element
C3_Witness ==
    /\ CalledOnView /\ res.op = "at_index_const" /\ res.arg = 1
    /\ CalledReferent.kind = "array_value" /\ Len(CalledReferent.elems) = 2
    /\ res.out = Ok(CalledReferent.elems[2])

\* C4: the non-const at(index) and at(key) called on a View throw, even
\* when the referent is an array or object that holds the index or key,
\* while contains(key), count(key) and get_value_or(key, d) on the same
\* View answer from the referent; the call that throws changes neither the
\* View nor the referent.
C4_NonConstAtThrows ==
    /\ [](CalledOnView =>
            /\ res.op \in {"at_key", "at_index"} => ~res.out.ok
            /\ res.op \in {"contains", "count", "get_value_or"} =>
                  res.out \in Outcomes(res.op, store, CalledReferent, res.arg))
    /\ [][(\E a \in Addr :
               \/ \E key \in Keys : Call_at_key(a, key)
               \/ \E i \in Indices : Call_at_index(a, i))
             => store' = store]_vars

\* the non-const at(key) has thrown on a View of an object that holds the
\* key, and contains(key) on that View is true
C4_Witness ==
    /\ CalledOnView /\ res.op = "at_key" /\ ~res.out.ok
    /\ CalledReferent.kind = "object_value"
    /\ contains(store, CalledReferent, res.arg)
    /\ contains(store, store[res.a], res.arg)

\* the object of size 0 for an empty object, and the empty object for an
\* object of size 0
ZeroSizeTwin(v) ==
    IF v.kind = "empty_object_value" THEN ObjectV(<<>>, v.tag) ELSE EmptyObjectV(v.tag)

IsZeroSizeObject(v) ==
    \/ v.kind = "empty_object_value"
    \/ v.kind = "object_value" /\ Len(v.members) = 0

\* the read operations of an object; at(key) and at(index) in both overloads
ObjectReadOps ==
    { "is_object", "size", "empty", "contains", "count", "find", "at_or_null",
      "get_value_or", "at_key", "at_key_const", "at_index", "at_index_const" }

\* C10: each read operation gives the same result, or the same class of
\* error, on an empty object and on an object of size 0.
C10_ZeroSizeObjectsAlike ==
    res.op \in ObjectReadOps /\ IsZeroSizeObject(store[res.a]) =>
       res.out \in Outcomes(res.op, store, ZeroSizeTwin(store[res.a]), res.arg)

(***************************************************************************)
(* The comparison operators as relations over the three live objects.      *)
(***************************************************************************)
\* store[a] == store[b] and store[a] < store[b], as the operators compute them
E(a, b) == Eq(store, store[a], <<a>>, store[b], <<b>>)
L(a, b) == Lt(store, store[a], <<a>>, store[b], <<b>>)

\* C6: operator== is reflexive, symmetric and transitive over the Values of
\* all storage kinds, and operator!= is its negation.
C6_EqIsEquivalence ==
    /\ res.op = "==" =>
          /\ res.lhs = res.rhs => res.val
          /\ res.val = E(res.rhs, res.lhs)
          /\ res.val => \A c \in Addr : E(res.rhs, c) => E(res.lhs, c)
    /\ res.op = "!=" => res.val = ~E(res.lhs, res.rhs)

\* two owned Values of kinds that no promotion rule relates: not two numbers,
\* not two strings, not an empty object and an object
Unpromoted(x, y) ==
    LET Numeric == {"int64_value", "uint64_value", "half_value", "double_value"}
        Text    == {"short_string_value", "long_string_value"}
        Object  == {"empty_object_value", "object_value"}
    IN  /\ x.kind # y.kind
        /\ ~IsView(x) /\ ~IsView(y)
        /\ \A K \in {Numeric, Text, Object} : ~(x.kind \in K /\ y.kind \in K)

\* C7: operator< returns a result for every ordered pair of storage kinds
\* (no call reaches the unreachable default branch), is irreflexive,
\* asymmetric and transitive, a == b implies neither a < b nor b < a, and
\* two Values of mismatched kinds that no promotion rule relates are ordered
\* by their storage discriminator.
C7_LtIsStrictWeakOrder ==
    res.op = "<" =>
       /\ ~res.unreachable
       /\ res.lhs = res.rhs => ~res.val
       /\ res.val => L(res.rhs, res.lhs) = "false"
       /\ res.val => \A c \in Addr : L(res.rhs, c) = "true" => L(res.lhs, c) = "true"
       /\ E(res.lhs, res.rhs) => ~res.val /\ L(res.rhs, res.lhs) = "false"
       /\ Unpromoted(store[res.lhs], store[res.rhs]) =>
             res.val = (StorageLess(store[res.lhs], store[res.rhs]) = "true")

\* the object a comparison reads for the object at a: the referent, for a
\* View, and the object itself otherwise
RECURSIVE Deref(_)
Deref(a) == IF IsView(store[a]) THEN Deref(store[a].p) ELSE a

\* C8: with a View in the place of either operand, operator== and
\* operator< give what they give on the View's referent.
C8_ComparatorReferenceTransparent ==
    /\ res.op = "==" => res.val = E(Deref(res.lhs), Deref(res.rhs))
    /\ res.op = "<" =>
          /\ L(res.lhs, res.rhs) = L(Deref(res.lhs), Deref(res.rhs))
          /\ ~res.unreachable => res.val = (L(Deref(res.lhs), Deref(res.rhs)) = "true")

\* the number a numeric Value represents, as a double
NumAsDouble(v) ==
    CASE v.kind \in {"int64_value", "uint64_value"} -> IntToDouble(v.i)
      [] v.kind = "half_value"   -> decode_half(v.h)
      [] v.kind = "double_value" -> v.d

IsInteger(v) == v.kind \in {"int64_value", "uint64_value"}
IsFloating(v) == v.kind \in {"half_value", "double_value"}

\* C9: between an int64 and a uint64, operator== and operator< compare the
\* represented integers; between an int64 or uint64 and a half or double, in
\* either operand order, they compare the two as doubles, never by storage
\* discriminator.
C9_NumericComparisonByValue ==
    LET x == store[res.lhs]
        y == store[res.rhs]
    IN  res.op \in {"==", "<"} =>
           /\ IsInteger(x) /\ IsInteger(y) /\ x.kind # y.kind =>
                 res.val = IF res.op = "==" THEN x.i = y.i ELSE x.i < y.i
           /\ \/ IsInteger(x) /\ IsFloating(y)
              \/ IsFloating(x) /\ IsInteger(y) =>
                 /\ ~res.unreachable
                 /\ res.val = IF res.op = "=="
                              THEN DblEq(NumAsDouble(x), NumAsDouble(y))
                              ELSE DblLt(NumAsDouble(x), NumAsDouble(y))

(***************************************************************************)
(* Copy construction and copy assignment.                                  *)
(***************************************************************************)
\* a copy that keeps an external reference as it is
Init_shallow(st, val) == val

\* void Init_(const basic_json_view& val): the Value constructed from val.
\* Copying array_storage or object_storage copies the container, which copy
\* constructs each element.
RECURSIVE Init_(_, _)
Init_(st, val) ==
    CASE val.kind = "json_const_pointer" -> Init_(st, Referent(st, val))
      [] val.kind = "array_value" ->
            ArrayV([i \in 1..Len(val.elems) |-> Init_(st, val.elems[i])], val.tag)
      [] val.kind = "object_value" ->
            ObjectV([i \in 1..Len(val.members) |->
                       KeyValue(val.members[i].key, Init_(st, val.members[i].value))],
                    val.tag)
      [] OTHER -> val

\* storage kinds whose payload is a heap box, which Destroy_() releases
IsHeapKind(k) ==
    k \in {"long_string_value", "byte_string_value", "array_value", "object_value"}

\* reading v reads the object at address d, directly or through Views
RECURSIVE Reaches(_, _, _)
Reaches(st, v, d) ==
    CASE v.kind = "json_const_pointer" -> v.p = d \/ Reaches(st, st[v.p], d)
      [] v.kind = "array_value" ->
            \E i \in 1..Len(v.elems) : Reaches(st, v.elems[i], d)
      [] v.kind = "object_value" ->
            \E i \in 1..Len(v.members) : Reaches(st, v.members[i].value, d)
      [] OTHER -> FALSE

\* some View in the store refers to the object at address d
IsReferredTo(st, d) == \E b \in DOMAIN st : Reaches(st, st[b], d)

\* what a Value read after its heap box was released can look like
Released == {NullV("none"), EmptyObjectV("none")}

CallResult(op, a, src, out) == [op |-> op, a |-> a, src |-> src, out |-> out]

\* basic_json_view(const basic_json_view& val): a new object at the free
\* address dst is constructed from the object at src
CopyConstruct(dst, src) ==
    /\ calls < MaxCalls
    /\ dst # src
    /\ ~IsReferredTo(store, dst)
    /\ store' = [store EXCEPT ![dst] = Init_(store, store[src])]
    /\ res' = CallResult("copy_construct", dst, src, "ok")
    /\ calls' = calls + 1

\* basic_json_view& operator=(const basic_json_view& val).  Destroy_() runs
\* before Init_(val): when val is read through the target's released heap
\* box the behaviour is undefined.
CopyAssign(dst, src) ==
    /\ calls < MaxCalls
    /\ IF dst = src
       THEN store' = store
       ELSE IF IsHeapKind(store[dst].kind) /\ Reaches(store, store[src], dst)
       THEN \E v \in Released \cup {Init_(store, store[src])} :
               store' = [store EXCEPT ![dst] = v]
       ELSE store' = [store EXCEPT ![dst] = Init_(store, store[src])]
    /\ res' = CallResult("copy_assign", dst, src, "ok")
    /\ calls' = calls + 1

(***************************************************************************)
(* The containers json_array and sorted_json_object.                       *)
(***************************************************************************)
\* basic_json_view(): a default-constructed Value
DefaultV == EmptyObjectV("none")

\* sorted_json_object::insert_or_assign
ObjInsertOrAssign(members, key, v) ==
    SelectSeq(members, LAMBDA m : SeqLess(m.key, key))
       \o <<KeyValue(key, v)>>
       \o SelectSeq(members, LAMBDA m : SeqLess(key, m.key))

\* sorted_json_object::try_emplace
ObjTryEmplace(members, key, v) ==
    IF ObjectFind(members, key) # 0 THEN members
    ELSE ObjInsertOrAssign(members, key, v)

\* sorted_json_object::erase(name)
ObjErase(members, key) == SelectSeq(members, LAMBDA m : m.key # key)

\* sorted_json_object::merge: try_emplace of each member of source from i on
RECURSIVE ObjMerge(_, _, _)
ObjMerge(members, source, i) ==
    IF i > Len(source) THEN members
    ELSE ObjMerge(ObjTryEmplace(members, source[i].key, source[i].value), source, i + 1)

\* sorted_json_object::merge_or_update: insert_or_assign of each member of
\* source from i on
RECURSIVE ObjMergeOrUpdate(_, _, _)
ObjMergeOrUpdate(members, source, i) ==
    IF i > Len(source) THEN members
    ELSE ObjMergeOrUpdate(ObjInsertOrAssign(members, source[i].key, source[i].value),
                          source, i + 1)

\* json_array::insert(pos, val), pos counted from 0
ArrInsert(elems, pos, v) ==
    SubSeq(elems, 1, pos) \o <<v>> \o SubSeq(elems, pos + 1, Len(elems))

\* json_array::resize(n)
ArrResize(elems, n) ==
    [i \in 1..n |-> IF i <= Len(elems) THEN elems[i] ELSE DefaultV]

(***************************************************************************)
(* The mutators of basic_json_view.                                        *)
(***************************************************************************)
\* a create_object_implicitly() that drops the semantic tag
create_object_untagged(st, v) == ObjectV(<<>>, "none")

\* void create_object_implicitly()
create_object_implicitly(st, v) == ObjectV(<<>>, tag(st, v))

\* the address of the object a const member of the object at b forwards to
RECURSIVE ForwardsTo(_, _)
ForwardsTo(st, b) == IF IsView(st[b]) THEN ForwardsTo(st, st[b].p) ELSE b

\* const object& object_value() const, called on the object at b: whether it
\* returns, and the store it leaves (an empty object is turned into an
\* object through const_cast)
object_value_const(st, b) ==
    LET d == ForwardsTo(st, b)
    IN  CASE st[d].kind = "empty_object_value" ->
                [ok |-> TRUE, at |-> d,
                 st |-> [st EXCEPT ![d] = create_object_implicitly(st, st[d])]]
          [] st[d].kind = "object_value" -> [ok |-> TRUE, at |-> d, st |-> st]
          [] OTHER -> [ok |-> FALSE, at |-> d, st |-> st]

\* one more live object, beside the document and the Views
Spare == Cardinality(Addr) + 1

\* the addresses of the live objects
Live == Addr \cup {Spare}

\* the argument of a call: the live object at address b, or a temporary
\* when b is no address (b = 0)
Temporary == Int64V(1, "none")
ArgVal(b) == IF b \in Live THEN store[b] ELSE Temporary

\* where an argument of a call on the object at a is taken from
ArgsFor(a) == (Live \ {a}) \cup {0}

\* a call on the object at a that ends with the object holding v
Mutated(op, a, src, v) ==
    /\ store' = [store EXCEPT ![a] = v]
    /\ res' = CallResult(op, a, src, "ok")
    /\ calls' = calls + 1

\* a call on the object at a that throws e, or does nothing
Unchanged(op, a, src, e) ==
    /\ store' = store
    /\ res' = CallResult(op, a, src, e)
    /\ calls' = calls + 1

IsObjectKind(k) == k \in {"empty_object_value", "object_value"}

\* the members of the object v, after create_object_implicitly() if needed
MembersOf(v) == IF v.kind = "object_value" THEN v.members ELSE <<>>

\* insert_or_assign(name, val)
insert_or_assign(a, key, b) ==
    /\ calls < MaxCalls
    /\ LET v == store[a]
       IN  IF IsObjectKind(v.kind)
           THEN Mutated("insert_or_assign", a, b,
                        ObjectV(ObjInsertOrAssign(MembersOf(v), key, Init_(store, ArgVal(b))),
                                tag(store, v)))
           ELSE Unchanged("insert_or_assign", a, b, "not_an_object")

\* try_emplace(name, args...)
try_emplace(a, key, b) ==
    /\ calls < MaxCalls
    /\ LET v == store[a]
       IN  IF IsObjectKind(v.kind)
           THEN Mutated("try_emplace", a, b,
                        ObjectV(ObjTryEmplace(MembersOf(v), key, Init_(store, ArgVal(b))),
                                tag(store, v)))
           ELSE Unchanged("try_emplace", a, b, "not_an_object")

\* v[name] = val: operator[](name) and then the proxy's operator=, which is
\* evaluate_with_default().insert_or_assign(name, val)
subscript_assign(a, key, b) ==
    /\ calls < MaxCalls
    /\ LET v == store[a]
       IN  IF IsObjectKind(v.kind)
           THEN Mutated("subscript_assign", a, b,
                        ObjectV(ObjInsertOrAssign(MembersOf(v), key, Init_(store, ArgVal(b))),
                                tag(store, v)))
           ELSE Unchanged("subscript_assign", a, b, "not_an_object")

\* erase(name)
erase(a, key) ==
    /\ calls < MaxCalls
    /\ LET v == store[a]
       IN  CASE v.kind = "empty_object_value" -> Unchanged("erase", a, 0, "ok")
             [] v.kind = "object_value" ->
                   Mutated("erase", a, 0, ObjectV(ObjErase(v.members, key), v.tag))
             [] OTHER -> Unchanged("erase", a, 0, "not_an_object")

\* the members of the object source refers to, each copied with Init_
CopiedMembers(st, members) ==
    [i \in 1..Len(members) |->
       KeyValue(members[i].key, Init_(st, members[i].value))]

\* a merge that overwrites the entries the target holds already
merge_overwriting(a, b) ==
    /\ calls < MaxCalls
    /\ LET v == store[a]
           src == object_value_const(store, b)
       IN  IF IsObjectKind(v.kind) /\ src.ok
           THEN /\ store' = [src.st EXCEPT ![a] =
                      ObjectV(ObjMergeOrUpdate(MembersOf(v),
                                       CopiedMembers(src.st, src.st[src.at].members), 1),
                              v.tag)]
                /\ res' = CallResult("merge", a, b, "ok")
           ELSE /\ store' = store
                /\ res' = CallResult("merge", a, b, "domain_error")
    /\ calls' = calls + 1

\* merge(const basic_json_view& source): the target is turned into an
\* object before source.object_value() is evaluated, which throws when
\* source is no object
merge(a, b) ==
    /\ calls < MaxCalls
    /\ LET v == store[a]
           st1 == [store EXCEPT ![a] = create_object_implicitly(store, v)]
           st0 == IF v.kind = "empty_object_value" THEN st1 ELSE store
           src == object_value_const(st0, b)
       IN  IF IsObjectKind(v.kind)
           THEN IF src.ok
                THEN /\ store' = [src.st EXCEPT ![a] =
                           ObjectV(ObjMerge(src.st[a].members,
                                            CopiedMembers(src.st, src.st[src.at].members), 1),
                                   src.st[a].tag)]
                     /\ res' = CallResult("merge", a, b, "ok")
                ELSE /\ store' = st0
                     /\ res' = CallResult("merge", a, b, "domain_error")
           ELSE /\ store' = store
                /\ res' = CallResult("merge", a, b, "domain_error")
    /\ calls' = calls + 1

\* merge_or_update(const basic_json_view& source)
merge_or_update(a, b) ==
    /\ calls < MaxCalls
    /\ LET v == store[a]
           st1 == [store EXCEPT ![a] = create_object_implicitly(store, v)]
           st0 == IF v.kind = "empty_object_value" THEN st1 ELSE store
           src == object_value_const(st0, b)
       IN  IF IsObjectKind(v.kind)
           THEN IF src.ok
                THEN /\ store' = [src.st EXCEPT ![a] =
                           ObjectV(ObjMergeOrUpdate(src.st[a].members,
                                            CopiedMembers(src.st, src.st[src.at].members), 1),
                                   src.st[a].tag)]
                     /\ res' = CallResult("merge_or_update", a, b, "ok")
                ELSE /\ store' = st0
                     /\ res' = CallResult("merge_or_update", a, b, "domain_error")
           ELSE /\ store' = store
                /\ res' = CallResult("merge_or_update", a, b, "domain_error")
    /\ calls' = calls + 1

\* push_back(val)
push_back(a, b) ==
    /\ calls < MaxCalls
    /\ LET v == store[a]
       IN  IF v.kind = "array_value"
           THEN /\ Len(v.elems) < MaxSize
                /\ Mutated("push_back", a, b,
                           ArrayV(Append(v.elems, Init_(store, ArgVal(b))), v.tag))
           ELSE Unchanged("push_back", a, b, "domain_error")

\* emplace_back(args...)
emplace_back(a, b) ==
    /\ calls < MaxCalls
    /\ LET v == store[a]
       IN  IF v.kind = "array_value"
           THEN /\ Len(v.elems) < MaxSize
                /\ Mutated("emplace_back", a, b,
                           ArrayV(Append(v.elems, Init_(store, ArgVal(b))), v.tag))
           ELSE Unchanged("emplace_back", a, b, "domain_error")

\* insert(pos, val) with pos = array_range().begin() + pos; on an object
\* that is no array the position is that of an empty range
insert(a, pos, b) ==
    /\ calls < MaxCalls
    /\ LET v == store[a]
       IN  IF v.kind = "array_value"
           THEN /\ pos <= Len(v.elems)
                /\ Len(v.elems) < MaxSize
                /\ Mutated("insert", a, b,
                           ArrayV(ArrInsert(v.elems, pos, Init_(store, ArgVal(b))), v.tag))
           ELSE /\ pos = 0
                /\ Unchanged("insert", a, b, "domain_error")

\* clear()
clear(a) ==
    /\ calls < MaxCalls
    /\ LET v == store[a]
       IN  CASE v.kind = "array_value"  -> Mutated("clear", a, 0, ArrayV(<<>>, v.tag))
             [] v.kind = "object_value" -> Mutated("clear", a, 0, ObjectV(<<>>, v.tag))
             [] OTHER                   -> Unchanged("clear", a, 0, "ok")

\* resize(n)
resize(a, n) ==
    /\ calls < MaxCalls
    /\ LET v == store[a]
       IN  IF v.kind = "array_value"
           THEN Mutated("resize", a, 0, ArrayV(ArrResize(v.elems, n), v.tag))
           ELSE Unchanged("resize", a, 0, "ok")

(***************************************************************************)
(* Three live objects: a document, Views over it, and copies and mutations *)
(* of them.                                                                *)
(***************************************************************************)
Documents ==
    { NullV("none"), Int64V(0, "none"), StringV(LongText, "none"),
      DoubleV(DblNaN, "none"),
      ArrayV(<<>>, "none"),
      ArrayV(<<Int64V(0, "none"), StringV(<<1>>, "none")>>, "none"),
      EmptyObjectV("none"),
      ObjectV(<<KeyValue(<<1>>, Int64V(0, "none"))>>, "none") }


Init ==
    /\ \E x \in Documents :
          LET st1 == [a \in Live |-> IF a = Spare THEN DefaultV ELSE x]
          IN  \E y \in {ConstPointerV(st1, 1), ArrayV(<<ConstPointerV(st1, 1)>>, "none")} :
                 LET st2 == [st1 EXCEPT ![2] = y]
                 IN  \E z \in {ConstPointerV(st2, 2), EmptyObjectV("none")} :
                        store = [st2 EXCEPT ![3] = z]
    /\ res = [op |-> "init"]
    /\ calls = 0

Next ==
    \E a \in Live :
       \/ \E b \in Live : CopyConstruct(a, b)
       \/ \E b \in Live : CopyAssign(a, b)
       \/ \E key \in Keys : \E b \in ArgsFor(a) : insert_or_assign(a, key, b)
       \/ \E key \in Keys : \E b \in ArgsFor(a) : try_emplace(a, key, b)
       \/ \E key \in Keys : \E b \in ArgsFor(a) : subscript_assign(a, key, b)
       \/ \E key \in Keys : erase(a, key)
       \/ \E b \in Live \ {a} : merge(a, b)
       \/ \E b \in Live \ {a} : merge_or_update(a, b)
       \/ \E b \in ArgsFor(a) : push_back(a, b)
       \/ \E b \in ArgsFor(a) : emplace_back(a, b)
       \/ \E pos \in Indices : \E b \in ArgsFor(a) : insert(a, pos, b)
       \/ clear(a)
       \/ \E n \in Indices : resize(a, n)

Spec == Init /\ [][Next]_vars

\* v holds an external reference at some depth
RECURSIVE HasView(_)
HasView(v) ==
    CASE v.kind = "json_const_pointer" -> TRUE
      [] v.kind = "array_value"  -> \E i \in 1..Len(v.elems) : HasView(v.elems[i])
      [] v.kind = "object_value" -> \E i \in 1..Len(v.members) : HasView(v.members[i].value)
      [] OTHER -> FALSE

\* v holds a NaN double at some depth
RECURSIVE HasNaN(_)
HasNaN(v) ==
    CASE v.kind = "double_value" -> v.d.cls = "nan"
      [] v.kind = "array_value"  -> \E i \in 1..Len(v.elems) : HasNaN(v.elems[i])
      [] v.kind = "object_value" -> \E i \in 1..Len(v.members) : HasNaN(v.members[i].value)
      [] OTHER -> FALSE

\* the last call copy constructed or copy assigned the object at res.a from
\* a View at res.src that does not lead back to the object at res.a
CopiedFromView ==
    /\ res.op \in {"copy_construct", "copy_assign"}
    /\ res.a # res.src
    /\ IsView(store[res.src])
    /\ ~Reaches(store, store[res.src], res.a)

\* the copy made by the last call, and the referent of the View it was made from
TheCopy == store[res.a]
TheReferent == store[ForwardsTo(store, res.src)]

MutatorOps ==
    { "insert_or_assign", "try_emplace", "merge", "merge_or_update", "erase",
      "push_back", "emplace_back", "insert", "clear", "resize", "subscript_assign" }

\* C5: a mutating operation called on a View materializes it: after the
\* call the View is no external reference any more, the call has not
\* thrown, and the referent is unchanged.
C5_MutatorsMaterializeView ==
    [][\A a \in Live :
          IsView(store[a]) /\ calls' = calls + 1
             /\ res'.a = a /\ res'.op \in MutatorOps =>
             /\ ~IsView(store'[a])
             /\ res'.out = "ok"
             /\ store'[ForwardsTo(store, a)] = store[ForwardsTo(store, a)]]_vars

(***************************************************************************)
(* Move construction and move assignment.  A heap storage (long_string,    *)
(* byte_string, array, object) holds a pointer to its heap box: here the   *)
(* top-level Value of each live object carries it as the field ptr.        *)
(***************************************************************************)
\* the heap Value v with its box at p, and v without the pointer
Boxed(v, p) == [f \in DOMAIN v \cup {"ptr"} |-> IF f = "ptr" THEN p ELSE v[f]]
Unboxed(v) == [f \in DOMAIN v \ {"ptr"} |-> v[f]]

\* the box a Value owns (0: none)
BoxOf(v) == IF "ptr" \in DOMAIN v THEN v.ptr ELSE 0

\* the addresses of heap boxes
Ptrs == 1..(2 * Cardinality(Live))

\* create(): allocate() returns a box that no live object owns
FreshPtr(st) == CHOOSE p \in Ptrs : \A a \in DOMAIN st : BoxOf(st[a]) # p

\* construct<...>(val.cast<...>()): the copy v of a Value; a heap storage
\* is copy constructed into a new box
Allocated(st, v) == IF IsHeapKind(v.kind) THEN Boxed(Unboxed(v), FreshPtr(st)) ELSE v

\* a swap that copy constructs each heap payload into a new box
swap_copying(st, a, b) ==
    IF a = b THEN st
    ELSE [st EXCEPT ![a] = Allocated(st, st[b]), ![b] = Allocated(st, st[a])]

\* void swap(basic_json_view& other): swap_a_b exchanges the two storages,
\* discriminator, tag and payload; a heap payload is exchanged by pointer
swap(st, a, b) == IF a = b THEN st ELSE [st EXCEPT ![a] = st[b], ![b] = st[a]]

\* a move construction that copies the heap box and leaves the source
Init_rv_copying(st, dst, src) ==
    [st EXCEPT ![dst] = Allocated(st, Init_(st, st[src]))]

\* void Init_rv_(basic_json_view&& val): the store after the object at dst
\* is constructed from the object at src
Init_rv_(st, dst, src) ==
    IF IsHeapKind(st[src].kind)
    THEN swap([st EXCEPT ![dst] = NullV("none")], dst, src)
    ELSE [st EXCEPT ![dst] = Allocated(st, Init_(st, st[src]))]

\* the outcome of a move: the Values the source and the target held before,
\* and the Value a copy of the source would have been
MoveResult(op, dst, src) ==
    [op |-> op, a |-> dst, src |-> src, before |-> store[src],
     target |-> store[dst], copy |-> Unboxed(Init_(store, store[src]))]

\* basic_json_view(basic_json_view&& other): a new object at the free
\* address dst is constructed from the object at src
MoveConstruct(dst, src) ==
    /\ calls < MaxCalls
    /\ dst # src
    /\ ~IsReferredTo(store, dst)
    /\ store' = Init_rv_(store, dst, src)
    /\ res' = MoveResult("move_construct", dst, src)
    /\ calls' = calls + 1

\* basic_json_view& operator=(basic_json_view&& val).  The programs modelled
\* do not move a View and its referent into one another: that exchange
\* leaves a View that refers to itself.
MoveAssign(dst, src) ==
    /\ calls < MaxCalls
    /\ ~Reaches(store, store[src], dst)
    /\ ~Reaches(store, store[dst], src)
    /\ store' = IF dst # src THEN swap(store, dst, src) ELSE store
    /\ res' = MoveResult("move_assign", dst, src)
    /\ calls' = calls + 1

\* the Values moved: every heap kind, the kinds held in place, and Views
MoveSources ==
    { NullV("none"), EmptyObjectV("none"), BoolV(TRUE, "none"),
      Int64V(-1, "none"), DoubleV(DblNaN, "none"), StringV(<<1>>, "string"),
      StringV(LongText, "none"), ByteStringV(<<1, 2>>, "base64"),
      ArrayV(<<Int64V(0, "none"), StringV(LongText, "none")>>, "none"),
      ObjectV(<<KeyValue(<<1>>, Int64V(0, "none"))>>, "none") }

MoveTargets ==
    { NullV("none"), Int64V(0, "none"), StringV(LongText, "datetime"),
      ArrayV(<<>>, "none") }

MoveInit ==
    /\ \E x \in MoveSources : \E y \in MoveTargets :
          LET st1 == [a \in Live |->
                        CASE a = 1 -> Allocated([b \in {} |-> x], x)
                          [] a = 2 -> y
                          [] OTHER -> DefaultV]
              st2 == [st1 EXCEPT ![2] = Allocated(st1, y)]
          IN  \E z \in {ConstPointerV(st2, 1), ConstPointerV(st2, 2), DefaultV} :
                 store = [st2 EXCEPT ![3] = z]
    /\ res = [op |-> "init"]
    /\ calls = 0

MoveNext ==
    \E a \in Live : \E b \in Live :
       \/ MoveConstruct(a, b)
       \/ MoveAssign(a, b)

SpecMove == MoveInit /\ [][MoveNext]_vars

\* the last call moved the Value of one object into another object
Moved(op) == res.op = op /\ res.a # res.src

\* the boxes owned by the objects other than the one at a
OtherBoxes(a) == {BoxOf(store[b]) : b \in Live \ {a}}

\* C11, as the claim states it: after a move from a into b, by construction
\* or by assignment, b holds a's former Value with a's heap box and a is
\* null when a held a heap variant, and b reads as a copy of a otherwise.
C11_MoveLeavesSourceNull ==
    Moved("move_construct") \/ Moved("move_assign") =>
       IF IsHeapKind(res.before.kind)
       THEN /\ store[res.a] = res.before
            /\ store[res.src].kind = "null_value"
       ELSE Unboxed(Init_(store, store[res.a])) = res.copy

\* C11, amended: after a move construction of b from a, b holds a's former
\* Value with a's heap box and a is null when a held a heap variant, and
\* otherwise b is what a copy of a is (a View is materialized into a box of
\* its own) and a is as it was; after a move assignment to another object
\* the two Values are exchanged, b holds a's former Value, box or external
\* reference included, and a holds b's former Value.
C11_MoveTransfersOrExchanges ==
    /\ Moved("move_construct") =>
          IF IsHeapKind(res.before.kind)
          THEN /\ store[res.a] = res.before
               /\ store[res.src] = NullV("none")
          ELSE /\ Unboxed(store[res.a]) = res.copy
               /\ store[res.src] = res.before
               /\ IsHeapKind(res.copy.kind) =>
                     BoxOf(store[res.a]) \in Ptrs \ OtherBoxes(res.a)
    /\ Moved("move_assign") =>
          /\ store[res.a] = res.before
          /\ store[res.src] = res.target

\* an array has been move constructed: the new object owns the array's box
\* and the source is null
C11_Witness ==
    /\ Moved("move_construct") /\ res.before.kind = "array_value"
    /\ BoxOf(store[res.a]) = BoxOf(res.before) /\ BoxOf(res.before) # 0
    /\ store[res.src].kind = "null_value"

(***************************************************************************)
(* Objects: the empty object, which the first mutation turns into an       *)
(* object, and the mutators of an object.                                  *)
(***************************************************************************)
\* sorted_json_object::insert(first, last, pred): the entries of the range
\* whose key the object does not hold yet are inserted
ObjInsertRange(members, range) == ObjMerge(members, range, 1)

\* non-const object& object_value(), called on the Value v: the Value left
\* (an empty object is turned into an object), or v when the cast throws
object_value(st, v) ==
    IF v.kind = "empty_object_value" THEN create_object_implicitly(st, v) ELSE v

\* reserve(n)
reserve(a, n) ==
    /\ calls < MaxCalls
    /\ LET v == store[a]
       IN  IF n > 0 /\ v.kind = "empty_object_value"
           THEN Mutated("reserve", a, 0, create_object_implicitly(store, v))
           ELSE Unchanged("reserve", a, 0, "ok")

\* shrink_to_fit()
shrink_to_fit(a) ==
    /\ calls < MaxCalls
    /\ Unchanged("shrink_to_fit", a, 0, "ok")

\* insert(first, last) with [first, last) the entries of the object at b
insert_range(a, b) ==
    /\ calls < MaxCalls
    /\ store[b].kind = "object_value"
    /\ LET v == store[a]
       IN  IF IsObjectKind(v.kind)
           THEN Mutated("insert_range", a, b,
                        ObjectV(ObjInsertRange(object_value(store, v).members,
                                               CopiedMembers(store, store[b].members)),
                                object_value(store, v).tag))
           ELSE Unchanged("insert_range", a, b, "domain_error")

\* the members called on a proxy, and what each returns without evaluating
\* the proxy when parent_.contains(key_) is false
ProxyMembers == {"is_null", "is_object", "contains", "size", "empty"}

ProxyDefault(m) ==
    CASE m = "size"  -> 0
      [] m = "empty" -> TRUE
      [] OTHER       -> FALSE

\* evaluate().m(...): the member m of the Value v
MemberOf(m, st, v, key) ==
    CASE m = "is_null"   -> is_null(st, v)
      [] m = "is_object" -> is_object(st, v)
      [] m = "contains"  -> contains(st, v, key)
      [] m = "size"      -> size(st, v)
      [] m = "empty"     -> empty(st, v)

\* one of the keys of a proxy chain, shorter by its last key
Front(path) == SubSeq(path, 1, Len(path) - 1)

\* proxy::evaluate(): root.at(k1).at(k2)... with the non-const at
RECURSIVE ProxyEvaluate(_, _, _)
ProxyEvaluate(st, root, path) ==
    IF path = <<>> THEN Ok(root)
    ELSE LET p == ProxyEvaluate(st, root, Front(path))
         IN  IF p.ok THEN at_key(st, p.val, path[Len(path)]) ELSE p

\* parent_.contains(key_) of the proxy with the keys path
RECURSIVE ProxyParentContains(_, _, _)
ProxyParentContains(st, root, path) ==
    IF Len(path) = 1 THEN contains(st, root, path[1])
    ELSE /\ ProxyParentContains(st, root, Front(path))
         /\ contains(st, ProxyEvaluate(st, root, Front(path)).val, path[Len(path)])

\* the member m called on the proxy with the keys path
ProxyMember(m, st, root, path, key) ==
    IF ~ProxyParentContains(st, root, path) THEN Ok(ProxyDefault(m))
    ELSE LET p == ProxyEvaluate(st, root, path)
         IN  IF p.ok THEN Ok(MemberOf(m, st, p.val, key)) ELSE p

\* v[k1].m(...) and v[k1][k2].m(...): operator[](name) of the object at a,
\* which turns an empty object into an object, then the proxy's member
subscript_read(a, path, m, key) ==
    /\ calls < MaxCalls
    /\ LET v == store[a]
           root == object_value(store, v)
       IN  IF IsObjectKind(v.kind)
           THEN /\ store' = [store EXCEPT ![a] = root]
                /\ res' = [op |-> "subscript_read", a |-> a, src |-> 0, out |-> "ok",
                           val |-> ProxyMember(m, store, root, path, key)]
           ELSE /\ store' = store
                /\ res' = [op |-> "subscript_read", a |-> a, src |-> 0,
                           out |-> "not_an_object", val |-> Err("not_an_object")]
    /\ calls' = calls + 1

\* insert_or_assign(name, val) called on the Value v that an object holds
InsertOrAssignV(st, v, key, x) ==
    IF IsObjectKind(v.kind)
    THEN Ok(ObjectV(ObjInsertOrAssign(MembersOf(v), key, x), tag(st, v)))
    ELSE Err("not_an_object")

\* a proxy that does not create the entry it lacks
evaluate_without_default(st, root, key) ==
    IF ~IsObjectKind(root.kind) THEN Err("not_an_object")
    ELSE LET it == ObjectFind(MembersOf(root), key)
         IN  IF it = 0 THEN Err("key_not_found") ELSE Ok(root)

\* proxy::evaluate_with_default() of the proxy root[key]: root with an
\* object emplaced under key when root lacks key
evaluate_with_default(st, root, key) ==
    IF ~IsObjectKind(root.kind) THEN Err("not_an_object")
    ELSE LET it == ObjectFind(MembersOf(root), key)
         IN  IF it = 0
             THEN Ok(ObjectV(ObjTryEmplace(MembersOf(root), key, ObjectV(<<>>, "none")),
                             tag(st, root)))
             ELSE Ok(root)

\* v[k1][k2] = val: operator[](k1) of the object at a, then the operator=
\* of the proxy v[k1][k2], parent_.evaluate_with_default().insert_or_assign
subscript_chain_assign(a, k1, k2, b) ==
    /\ calls < MaxCalls
    /\ LET v == store[a]
           root == object_value(store, v)
           with == evaluate_with_default(store, root, k1)
           child == InsertOrAssignV(store, at_key(store, with.val, k1).val, k2,
                                    Init_(store, ArgVal(b)))
       IN  IF ~IsObjectKind(v.kind)
           THEN Unchanged("subscript_chain_assign", a, b, "not_an_object")
           ELSE IF with.ok /\ child.ok
           THEN Mutated("subscript_chain_assign", a, b,
                        ObjectV(ObjInsertOrAssign(with.val.members, k1, child.val),
                                with.val.tag))
           ELSE /\ store' = [store EXCEPT ![a] = IF with.ok THEN with.val ELSE root]
                /\ res' = CallResult("subscript_chain_assign", a, b, "not_an_object")
                /\ calls' = calls + 1

\* the keys of the proxies read: v[k1] and v[k1][k2]
Paths == {<<k>> : k \in Keys} \cup {<<k1, k2>> : k1 \in Keys, k2 \in Keys}

\* the objects mutated: empty objects and objects, with and without a tag,
\* and Values that are no objects
ObjTargets ==
    { EmptyObjectV("none"), EmptyObjectV("datetime"), ObjectV(<<>>, "none"),
      ObjectV(<<KeyValue(<<1>>, Int64V(1, "none"))>>, "none"),
      ObjectV(<<KeyValue(<<1>>, ObjectV(<<KeyValue(<<2>>, NullV("none"))>>, "none"))>>,
              "none"),
      Int64V(0, "none"), ArrayV(<<>>, "none") }

\* the objects merged into them
ObjSources ==
    { EmptyObjectV("none"),
      ObjectV(<<KeyValue(<<1>>, Int64V(2, "none")), KeyValue(<<2>>, Int64V(3, "none"))>>,
              "none"),
      ObjectV(<<KeyValue(<<2>>, StringV(LongText, "none"))>>, "none"),
      Int64V(5, "none") }

\* the calls made on the objects of one run, out of the MaxCalls calls
MaxObjCalls == 1

ObjInit ==
    /\ \E x \in ObjTargets : \E y \in ObjSources :
          LET st2 == [a \in Live |-> CASE a = 1 -> x [] a = 2 -> y [] OTHER -> DefaultV]
          IN  \E z \in {ConstPointerV(st2, 2), DefaultV} :
                 store = [st2 EXCEPT ![3] = z]
    /\ res = [op |-> "init"]
    /\ calls = MaxCalls - MaxObjCalls

ObjNext ==
    \E a \in Live :
       \/ \E key \in Keys : \E b \in ArgsFor(a) : insert_or_assign(a, key, b)
       \/ \E key \in Keys : \E b \in ArgsFor(a) : try_emplace(a, key, b)
       \/ \E key \in Keys : erase(a, key)
       \/ \E b \in Live \ {a} : merge(a, b)
       \/ \E b \in Live \ {a} : merge_or_update(a, b)
       \/ \E b \in Live \ {a} : insert_range(a, b)
       \/ \E n \in Indices : reserve(a, n)
       \/ shrink_to_fit(a)
       \/ clear(a)
       \/ \E path \in Paths : \E m \in ProxyMembers : \E key \in Keys :
             subscript_read(a, path, m, key)
       \/ \E k1 \in Keys : \E k2 \in Keys : \E b \in ArgsFor(a) :
             subscript_chain_assign(a, k1, k2, b)

SpecObj == ObjInit /\ [][ObjNext]_vars

\* the step is a call of one of ops on the object at a
Called(a, ops) == calls' = calls + 1 /\ res'.a = a /\ res'.op \in ops

\* C12: insert_or_assign, try_emplace, merge, merge_or_update, the range
\* insert and reserve(n) with n > 0 called on an empty object turn it into
\* an object with the same semantic tag and then act as on an object of
\* size 0: the call does not throw for the target's kind, and throws only
\* when its source argument is no object, as it does on an object of size 0;
\* erase(key), clear, shrink_to_fit and reserve(0) leave the empty object.
C12_EmptyObjectPromotion ==
    [][\A a \in Live : store[a].kind = "empty_object_value" =>
          /\ Called(a, {"insert_or_assign", "try_emplace"}) =>
                /\ res'.out = "ok"
                /\ store'[a].kind = "object_value" /\ store'[a].tag = store[a].tag
                /\ Len(store'[a].members) = 1
                /\ store'[a].members[1].key \in Keys
                /\ store'[a].members[1].value = Init_(store, ArgVal(res'.src))
          /\ Called(a, {"merge", "merge_or_update", "insert_range"}) =>
                /\ store'[a].kind = "object_value" /\ store'[a].tag = store[a].tag
                /\ LET d == ForwardsTo(store, res'.src)
                   IN  IF IsObjectKind(store[d].kind)
                       THEN /\ res'.out = "ok"
                            /\ store'[a].members
                                  = CopiedMembers(store, MembersOf(store[d]))
                       ELSE /\ res'.out = "domain_error"
                            /\ store'[a].members = <<>>
          /\ (\E n \in Indices \ {0} : reserve(a, n)) =>
                store'[a] = ObjectV(<<>>, store[a].tag)
          /\ reserve(a, 0) \/ Called(a, {"erase", "clear", "shrink_to_fit"}) =>
                store'[a] = store[a] /\ res'.out = "ok"]_vars

\* the empty object tagged datetime has been merged with an object of two
\* entries: it is an object with these entries and the tag
C12_Witness ==
    /\ res.op = "merge" /\ res.out = "ok" /\ res.a = 1
    /\ store[1].kind = "object_value" /\ store[1].tag = "datetime"
    /\ Len(store[1].members) = 2

\* C13: evaluating v[key] or v[k1][k2] without assigning through it, and
\* calling is_null, is_object, contains, size or empty on the proxy, leaves
\* v as it was: no key is inserted, no entry changes, and an empty object is
\* still an empty object.
C13_SubscriptReadHasNoEffect ==
    [][\A a \in Live : Called(a, {"subscript_read"}) => store' = store]_vars

\* the Value under key in the object v of the store st
Entry(st, v, key) == at_key(st, v, key)

MergedEntry(st, first, second, k) ==
    IF Entry(st, first, k).ok THEN Entry(st, first, k)
    ELSE IF Entry(st, second, k).ok THEN Entry(st, second, k)
    ELSE Err("key_not_found")

\* no two entries of the object v have the same key
UniqueKeys(v) ==
    \A i \in 1..Len(v.members) : \A j \in 1..Len(v.members) :
       v.members[i].key = v.members[j].key => i = j

\* C15: for objects A and B, either of which may be an empty object, after
\* A.merge(B) the keys of A are those of A and of B, a key of A keeps A's
\* value and a key of B alone has B's value; after A.merge_or_update(B) a
\* key of B has B's value and a key of A alone keeps A's; no key is held
\* twice; and either call on an A that is no object throws and changes
\* nothing.
C15_MergeAndMergeOrUpdate ==
    [][\A a \in Live :
          LET A == store[a]
              B == store[ForwardsTo(store, res'.src)]
          IN  /\ Called(a, {"merge"}) /\ IsObjectKind(A.kind) /\ IsObjectKind(B.kind) =>
                    /\ res'.out = "ok" /\ UniqueKeys(store'[a])
                    /\ \A k \in Keys :
                          Entry(store', store'[a], k) = MergedEntry(store, A, B, k)
              /\ Called(a, {"merge_or_update"}) /\ IsObjectKind(A.kind)
                    /\ IsObjectKind(B.kind) =>
                    /\ res'.out = "ok" /\ UniqueKeys(store'[a])
                    /\ \A k \in Keys :
                          Entry(store', store'[a], k) = MergedEntry(store, B, A, k)
              /\ Called(a, {"merge", "merge_or_update"}) /\ ~IsObjectKind(A.kind) =>
                    res'.out = "domain_error" /\ store' = store]_vars

\* {1: 1} has been merged with {1: 2, 2: 3}: it is {1: 1, 2: 3}
C15_Witness ==
    /\ res.op = "merge" /\ res.out = "ok" /\ res.a = 1 /\ res.src = 2
    /\ store[2].kind = "object_value" /\ Len(store[2].members) = 2
    /\ store[2].members[1] = KeyValue(<<1>>, Int64V(2, "none"))
    /\ store[1] = ObjectV(<<KeyValue(<<1>>, Int64V(1, "none")),
                            KeyValue(<<2>>, Int64V(3, "none"))>>, "none")

(***************************************************************************)
(* count(key), contains(key) and find(key) over objects of either policy:  *)
(* the entries of a sorted object, equal keys adjacent, and those of an    *)
(* insertion-order object, where equal keys may lie apart.                 *)
(***************************************************************************)
\* the entries an object holds at most
MaxEntries == 3

\* the key sequences of the objects counted
RECURSIVE KeySeqs(_)
KeySeqs(n) ==
    IF n = 0 THEN {<<>>}
    ELSE KeySeqs(n - 1)
            \cup {Append(q, k) : q \in {r \in KeySeqs(n - 1) : Len(r) = n - 1}, k \in Keys}

\* the object whose i-th entry has the i-th key of q and the value i
ObjectOfKeys(q) ==
    ObjectV([i \in 1..Len(q) |-> KeyValue(q[i], Int64V(i, "none"))], "none")

CountInit ==
    /\ \E x \in {ObjectOfKeys(q) : q \in KeySeqs(MaxEntries)}
                  \cup {EmptyObjectV("none"), Int64V(0, "none"), ArrayV(<<>>, "none")} :
          LET st1 == [a \in Addr |-> x]
              st2 == [st1 EXCEPT ![2] = ConstPointerV(st1, 1)]
          IN  store = [st2 EXCEPT ![3] = ConstPointerV(st2, 2)]
    /\ res = [op |-> "init"]
    /\ calls = 0

CountNext ==
    \E a \in Addr : \E key \in Keys :
       \/ Call_count(a, key)
       \/ Call_contains(a, key)
       \/ Call_find(a, key)

SpecCount == CountInit /\ [][CountNext]_vars

\* C16: count(key) is 0 when find(key) finds no entry and for an empty
\* object or a Value that is no object; otherwise it is the length of the
\* longest run of entries with the key that starts at the entry find(key)
\* returns, so that an entry with the key after the run is not counted; on
\* an object whose keys are unique it is 1 for every key the object holds;
\* and contains(key) is true exactly when count(key) > 0.
C16_CountIsContiguousRun ==
    LET v == store[Deref(res.a)]
        key == res.arg
        it == find_const(store, v, key)
    IN  /\ res.op = "count" =>
              IF v.kind # "object_value" \/ it = Ok(0)
              THEN res.out = 0
              ELSE /\ res.out >= 1
                   /\ \A i \in it.val..(it.val + res.out - 1) : v.members[i].key = key
                   /\ it.val + res.out <= Len(v.members) =>
                         v.members[it.val + res.out].key # key
                   /\ UniqueKeys(v) => res.out = 1
        /\ res.op = "contains" => res.out = (count(store, store[res.a], key) > 0)

\* count(key) is 1 through a View of an insertion-order object that holds
\* the key twice, apart
C16_Witness ==
    /\ res.op = "count" /\ res.out = 1 /\ res.arg = <<1>> /\ IsView(store[res.a])
    /\ store[1] = ObjectOfKeys(<<<<1>>, <<2>>, <<1>>>>)


(***************************************************************************)
(* Errors of accessors and mutators: at, the non-throwing fallbacks, and   *)
(* the array mutators called on objects of every kind.                     *)
(***************************************************************************)
\* a get_with_default that reports a key that is not found as an error
RECURSIVE get_with_default_throwing(_, _, _, _)
get_with_default_throwing(st, v, key, d) ==
    CASE v.kind \in {"null_value", "empty_object_value"} -> {Err("key_not_found")}
      [] v.kind = "object_value" ->
            LET it == ObjectFind(v.members, key)
            IN  IF it # 0 THEN as_integer(st, v.members[it].value)
                ELSE {Err("key_not_found")}
      [] v.kind = "json_const_pointer" ->
            get_with_default_throwing(st, Referent(st, v), key, d)
      [] OTHER                         -> {Err("not_an_object")}

\* T get_with_default(key, default_value) const, with T = int64_t
RECURSIVE get_with_default(_, _, _, _)
get_with_default(st, v, key, d) ==
    CASE v.kind \in {"null_value", "empty_object_value"} -> {Ok(d)}
      [] v.kind = "object_value" ->
            LET it == ObjectFind(v.members, key)
            IN  IF it # 0 THEN as_integer(st, v.members[it].value) ELSE {Ok(d)}
      [] v.kind = "json_const_pointer" -> get_with_default(st, Referent(st, v), key, d)
      [] OTHER                         -> {Err("not_an_object")}

Call_get_with_default(a, key, d) ==
    \E out \in get_with_default(store, store[a], key, d) :
       /\ res' = ReadResult("get_with_default", a, <<key, d>>, out)
       /\ UNCHANGED <<store, calls>>

ErrNext ==
    \E a \in Live :
       \/ \E key \in Keys : Call_at_key(a, key)
       \/ \E key \in Keys : Call_at_key_const(a, key)
       \/ \E i \in Indices : Call_at_index(a, i)
       \/ \E i \in Indices : Call_at_index_const(a, i)
       \/ \E key \in Keys : Call_at_or_null(a, key)
       \/ \E key \in Keys : \E d \in Defaults : Call_get_value_or(a, key, d)
       \/ \E key \in Keys : \E d \in Defaults : Call_get_with_default(a, key, d)
       \/ \E b \in ArgsFor(a) : push_back(a, b)
       \/ \E b \in ArgsFor(a) : emplace_back(a, b)
       \/ \E pos \in Indices : \E b \in ArgsFor(a) : insert(a, pos, b)

\* the objects of Init, with room for MaxObjCalls calls of a mutator
ErrInit ==
    /\ \E x \in Documents :
          LET st1 == [a \in Live |-> IF a = Spare THEN DefaultV ELSE x]
          IN  \E y \in {ConstPointerV(st1, 1), ArrayV(<<ConstPointerV(st1, 1)>>, "none")} :
                 LET st2 == [st1 EXCEPT ![2] = y]
                 IN  \E z \in {ConstPointerV(st2, 2), EmptyObjectV("none")} :
                        store = [st2 EXCEPT ![3] = z]
    /\ res = [op |-> "init"]
    /\ calls = MaxCalls - MaxObjCalls

SpecErr == ErrInit /\ [][ErrNext]_vars

\* the object or empty object v has no entry with this key
Lacks(v, key) ==
    \/ v.kind = "empty_object_value"
    \/ v.kind = "object_value" /\ ObjectFind(v.members, key) = 0

\* what at(key), the fallbacks and the array mutators report, and that a
\* call leaves every object as it was when it reports an error; v is the
\* object the call is made on, w the object it reads (the referent of a View
\* for a const overload)
ErrorsOfKeyedAndArrayCalls(r, v, w) ==
    /\ r.op = "at_key" =>
          /\ Lacks(v, r.arg) => r.out = Err("key_not_found")
          /\ ~IsObjectKind(v.kind) => r.out = Err("not_an_object")
    /\ r.op = "at_key_const" =>
          /\ Lacks(w, r.arg) => r.out = Err("key_not_found")
          /\ ~IsObjectKind(w.kind) => r.out = Err("not_an_object")
    /\ r.op = "at_index" =>
          (v.kind = "array_value" /\ r.arg >= Len(v.elems) => r.out = Err("out_of_range"))
    /\ r.op = "at_index_const" =>
          (w.kind = "array_value" /\ r.arg >= Len(w.elems) => r.out = Err("out_of_range"))
    /\ r.op \in {"push_back", "emplace_back", "insert"} =>
          (v.kind # "array_value" => r.out = "domain_error")
    /\ r.op \in {"get_value_or", "get_with_default"} =>
          (Lacks(w, r.arg[1]) => r.out = Ok(r.arg[2]))
    /\ r.op = "at_or_null" =>
          (Lacks(w, r.arg) => r.out = Ok(NullV("none")))
    /\ r.op \in {"at_key", "at_key_const", "at_index", "at_index_const",
                 "get_value_or", "get_with_default", "at_or_null"} =>
          (~r.out.ok => store' = store)
    /\ r.op \in {"push_back", "emplace_back", "insert"} =>
          (r.out # "ok" => store' = store)

\* C17, as the claim states it: at(index) raises a type error on every
\* object that is no array; the other errors are those of
\* ErrorsOfKeyedAndArrayCalls.
C17_IndexOnNonArrayIsTypeError ==
    [][LET r == res'
           v == store[r.a]
           w == store[Deref(r.a)]
       IN  /\ ErrorsOfKeyedAndArrayCalls(r, v, w)
           /\ r.op = "at_index" =>
                 (v.kind # "array_value" => r.out = Err("domain_error"))
           /\ r.op = "at_index_const" =>
                 (w.kind # "array_value" => r.out = Err("domain_error"))]_vars

\* C17: an error is raised by the call and leaves every object unchanged:
\* at(key) raises key-not-found on an object or empty object lacking the key
\* and a type mismatch on every other kind; at(index) raises out-of-range at
\* an index not below the array's size, gives on an object with entries the
\* value of the entry at that position (out-of-range when there is none),
\* and raises a type error on every kind that is neither; push_back,
\* emplace_back and array insert raise a type error on an object that is no
\* array; get_value_or, get_with_default and at_or_null give the default (or
\* null) for a key that is not found.
C17_ErrorsAtCallLeaveValue ==
    [][LET r == res'
           v == store[r.a]
           w == store[Deref(r.a)]
       IN  /\ ErrorsOfKeyedAndArrayCalls(r, v, w)
           /\ r.op = "at_index" =>
                 /\ v.kind \notin {"array_value", "object_value"} =>
                       r.out = Err("domain_error")
                 /\ v.kind = "object_value" => r.out = ObjectAt(v.members, r.arg)
           /\ r.op = "at_index_const" =>
                 /\ w.kind \notin {"array_value", "object_value"} =>
                       r.out = Err("domain_error")
                 /\ w.kind = "object_value" => r.out = ObjectAt(w.members, r.arg)]_vars

\* at(0) called on an object with an entry gave that entry's value
C17_Witness ==
    /\ res.op = "at_index"
    /\ res.arg = 0
    /\ store[res.a].kind = "object_value"
    /\ res.out = Ok(store[res.a].members[1].value)


(***************************************************************************)
(* dump: the events a visitor receives.  A visitor is given by the calls   *)
(* (counted from 1) at which it returns false and the call at which it     *)
(* sets the error code (0: never).                                         *)
(***************************************************************************)
MaxEvents == 6

BeginObject(n, t) == [ev |-> "begin_object", n |-> n, tag |-> t]
EndObject == [ev |-> "end_object"]
BeginArray(n, t) == [ev |-> "begin_array", n |-> n, tag |-> t]
EndArray == [ev |-> "end_array"]
Key(name) == [ev |-> "key", name |-> name]
Flush == [ev |-> "flush"]

\* the visitor member dump_noflush calls for a value that is no container
LeafEvent(v) ==
    CASE IsString(v.kind)                 -> [ev |-> "string_value", val |-> v]
      [] v.kind = "byte_string_value"     -> [ev |-> "byte_string_value", val |-> v]
      [] v.kind = "half_value"            -> [ev |-> "half_value", val |-> v]
      [] v.kind = "double_value"          -> [ev |-> "double_value", val |-> v]
      [] v.kind = "int64_value"           -> [ev |-> "int64_value", val |-> v]
      [] v.kind = "uint64_value"          -> [ev |-> "uint64_value", val |-> v]
      [] v.kind = "bool_value"            -> [ev |-> "bool_value", val |-> v]
      [] v.kind = "null_value"            -> [ev |-> "null_value", val |-> v]

\* what the visitor returns from its latest call, the last of ev
More(ev, stops) == Len(ev) \notin stops

\* void dump_noflush(visitor, ec) const: ev holds the events emitted so far
RECURSIVE dump_noflush(_, _, _, _)
RECURSIVE DumpMembers(_, _, _, _, _)
RECURSIVE DumpElements(_, _, _, _, _)
dump_noflush(st, v, ev, stops) ==
    CASE v.kind = "empty_object_value" ->
            Append(Append(ev, BeginObject(0, tag(st, v))), EndObject)
      [] v.kind = "object_value" ->
            LET e1 == Append(ev, BeginObject(size(st, v), tag(st, v)))
                more == More(e1, stops)
                e2 == IF more THEN DumpMembers(st, v.members, 1, e1, stops) ELSE e1
            IN  IF more THEN Append(e2, EndObject) ELSE e2
      [] v.kind = "array_value" ->
            LET e1 == Append(ev, BeginArray(size(st, v), tag(st, v)))
                more == More(e1, stops)
                e2 == IF more THEN DumpElements(st, v.elems, 1, e1, stops) ELSE e1
            IN  IF more THEN Append(e2, EndArray) ELSE e2
      [] v.kind = "json_const_pointer" -> dump_noflush(st, Referent(st, v), ev, stops)
      [] OTHER -> Append(ev, LeafEvent(v))

\* the loop over the members of an object, from the i-th on
DumpMembers(st, members, i, ev, stops) ==
    IF i > Len(members) THEN ev
    ELSE DumpMembers(st, members, i + 1,
                     dump_noflush(st, members[i].value,
                                  Append(ev, Key(members[i].key)), stops),
                     stops)

\* the loop over the elements of an array, from the i-th on
DumpElements(st, elems, i, ev, stops) ==
    IF i > Len(elems) THEN ev
    ELSE DumpElements(st, elems, i + 1, dump_noflush(st, elems[i], ev, stops), stops)

\* the error code after the calls of ev
ErrorCode(ev, errAt) == errAt \in 1..Len(ev)

\* a dump that never flushes
dump_unflushed(st, v, stops, errAt) ==
    dump_noflush(st, v, <<>>, stops)

\* void dump(basic_json_visitor<char_type>& visitor, std::error_code& ec) const
dump(st, v, stops, errAt) ==
    LET ev == dump_noflush(st, v, <<>>, stops)
    IN  IF ErrorCode(ev, errAt) THEN ev ELSE Append(ev, Flush)

DumpResult(op, a, stops, errAt, events, out) ==
    [op |-> op, a |-> a, stops |-> stops, errAt |-> errAt, events |-> events,
     out |-> out]

\* dump(visitor, ec): the error code is left to the caller
Call_dump_ec(a, stops, errAt) ==
    /\ LET ev == dump(store, store[a], stops, errAt)
       IN  res' = DumpResult("dump_ec", a, stops, errAt, ev,
                             IF ErrorCode(ev, errAt) THEN "ec" ELSE "ok")
    /\ UNCHANGED <<store, calls>>

\* void dump(basic_json_visitor<char_type>& visitor) const: throws ser_error
\* when the error code is set
Call_dump(a, stops, errAt) ==
    /\ LET ev == dump(store, store[a], stops, errAt)
       IN  res' = DumpResult("dump", a, stops, errAt, ev,
                             IF ErrorCode(ev, errAt) THEN "ser_error" ELSE "ok")
    /\ UNCHANGED <<store, calls>>

DumpTrees ==
    { Int64V(0, "none"), StringV(<<1>>, "none"), NullV("none"),
      EmptyObjectV("none"), ObjectV(<<>>, "none"),
      ArrayV(<<Int64V(0, "none"), BoolV(TRUE, "none")>>, "none"),
      ObjectV(<<KeyValue(<<1>>, ArrayV(<<NullV("none")>>, "none")),
                KeyValue(<<2>>, Int64V(1, "none"))>>, "none"),
      ArrayV(<<ObjectV(<<KeyValue(<<1>>, EmptyObjectV("none"))>>, "none"),
               StringV(LongText, "none")>>, "none") }

DumpInit ==
    /\ \E x \in DumpTrees :
          LET st1 == [a \in Addr |-> x]
          IN  \E y \in {ConstPointerV(st1, 1), ArrayV(<<ConstPointerV(st1, 1)>>, "none")} :
                 store = [st1 EXCEPT ![2] = y, ![3] = ConstPointerV([st1 EXCEPT ![2] = y], 2)]
    /\ res = [op |-> "init"]
    /\ calls = 0

\* the visitors: one that never signals stop, those that signal stop at one
\* call, and those that signal stop at a call and at every call after it
Visitors ==
    {{}} \cup {{k} : k \in 1..MaxEvents}
         \cup {{j \in 1..(2 * MaxEvents) : j >= k} : k \in 1..MaxEvents}
\* the calls at which a visitor sets the error code: none, the first, a later one
ErrorCalls == {0, 1, MaxEvents}

DumpNext ==
    \E a \in Addr :
       \/ \E stops \in Visitors : \E errAt \in ErrorCalls : Call_dump(a, stops, errAt)
       \/ \E stops \in Visitors : \E errAt \in ErrorCalls : Call_dump_ec(a, stops, errAt)

SpecDump == DumpInit /\ [][DumpNext]_vars

\* the events of a tree, put together from the events of its parts
RECURSIVE EventsOf(_, _)
RECURSIVE MembersEvents(_, _, _)
RECURSIVE ElementsEvents(_, _, _)
EventsOf(st, v) ==
    CASE v.kind = "json_const_pointer" -> EventsOf(st, st[v.p])
      [] v.kind = "empty_object_value" -> <<BeginObject(0, v.tag), EndObject>>
      [] v.kind = "object_value" ->
            <<BeginObject(Len(v.members), v.tag)>>
               \o MembersEvents(st, v.members, 1) \o <<EndObject>>
      [] v.kind = "array_value" ->
            <<BeginArray(Len(v.elems), v.tag)>>
               \o ElementsEvents(st, v.elems, 1) \o <<EndArray>>
      [] OTHER -> <<LeafEvent(v)>>
MembersEvents(st, members, i) ==
    IF i > Len(members) THEN <<>>
    ELSE <<Key(members[i].key)>> \o EventsOf(st, members[i].value)
            \o MembersEvents(st, members, i + 1)
ElementsEvents(st, elems, i) ==
    IF i > Len(elems) THEN <<>>
    ELSE EventsOf(st, elems[i]) \o ElementsEvents(st, elems, i + 1)

\* the scopes left open after the events of ev from the i-th on, with stack
\* the scopes open before; an end that closes no open scope of its kind
\* leaves a scope "unmatched" that nothing closes
RECURSIVE Nesting(_, _, _)
Nesting(ev, i, stack) ==
    IF i > Len(ev) THEN stack
    ELSE LET e == ev[i].ev
             top == IF stack = <<>> THEN "none" ELSE stack[Len(stack)]
         IN  CASE e = "begin_object" -> Nesting(ev, i + 1, Append(stack, "object"))
               [] e = "begin_array"  -> Nesting(ev, i + 1, Append(stack, "array"))
               [] e = "end_object"   ->
                     IF top = "object"
                     THEN Nesting(ev, i + 1, SubSeq(stack, 1, Len(stack) - 1))
                     ELSE <<"unmatched">>
               [] e = "end_array"    ->
                     IF top = "array"
                     THEN Nesting(ev, i + 1, SubSeq(stack, 1, Len(stack) - 1))
                     ELSE <<"unmatched">>
               [] OTHER              -> Nesting(ev, i + 1, stack)
WellNested(ev) == Nesting(ev, 1, <<>>) = <<>>

Dumped == res.op \in {"dump", "dump_ec"}
\* the visitor signalled neither stop nor an error during the dump
NeverSignalled ==
    /\ res.stops \cap (1..Len(res.events)) = {}
    /\ res.errAt \notin 1..Len(res.events)

\* C18: when the visitor signals neither stop nor error, dump emits the
\* depth-first events of the tree (begin_object(size), each key followed by
\* the events of its value, end_object; begin_array(size), the elements in
\* index order, end_array; begin_object(0), end_object for an empty object;
\* one event for a leaf; the referent's events for a View), well nested, and
\* then exactly one flush, the last call.
C18_DumpDepthFirstOneFlush ==
    Dumped /\ NeverSignalled =>
       /\ res.events = EventsOf(store, store[res.a]) \o <<Flush>>
       /\ WellNested(res.events)
       /\ \A i \in 1..Len(res.events) :
             res.events[i] = Flush <=> i = Len(res.events)
       /\ res.out = "ok"

\* the dump of a View of an object that holds an array
C18_Witness ==
    /\ Dumped /\ NeverSignalled
    /\ IsView(store[res.a])
    /\ Len(res.events) = 9
    /\ res.events[1].ev = "begin_object"
    /\ res.events[3].ev = "begin_array"

\* the first call at which the visitor signalled stop
FirstStop == CHOOSE k \in res.stops \cap (1..Len(res.events)) :
                \A j \in res.stops \cap (1..Len(res.events)) : k <= j

\* C19: when a call of the visitor signals stop, no key, leaf or begin event
\* follows it, and every scope opened is closed, so that the events are well
\* nested.
C19_StopEndsTraversal ==
    Dumped /\ res.stops \cap (1..Len(res.events)) # {} =>
       /\ \A j \in (FirstStop + 1)..Len(res.events) :
             res.events[j].ev \in {"end_object", "end_array", "flush"}
       /\ WellNested(res.events)


(***************************************************************************)
(* basic_csv_parser.  store holds the parser object and its two handlers,  *)
(* calls counts the calls of update.  The options are n_rows mapping, no   *)
(* header, no column names, types or defaults, no trimming, no type         *)
(* inference, ignore_empty_lines, field delimiter ",", subfield delimiter  *)
(* ";", quote and quote escape character "q"; the input holds no blank, no *)
(* carriage return and no comment starter.                                 *)
(***************************************************************************)
MaxInput == 2
\* number of calls of update in a run
MaxUpdates == 2
MaxStop == 3

Chars == {"a", ",", ";", "q", "n"}
field_delimiter == ","
subfield_delimiter == ";"
quote_char == "q"
newline == "n"
carriage_return == "r"

RECURSIVE Inputs(_)
Inputs(n) ==
    IF n = 0 THEN {<<>>}
    ELSE Inputs(n - 1) \cup {Append(q, c) : q \in {r \in Inputs(n - 1) : Len(r) = n - 1},
                                            c \in Chars}

\* basic_csv_parser(handler, options, err_handler): the content handler
\* returns false from its calls numbered in stops, the error handler returns
\* decision, and options.max_lines() is max_lines (0: no limit)
NewParser(stops, decision, max_lines) ==
    [state_ |-> "start", stack_ |-> <<"initial", "data">>, state_stack_ |-> <<>>,
     column_ |-> 1, line_ |-> 1, value_buffer_ |-> <<>>, column_index_ |-> 0,
     input |-> <<>>, input_ptr_ |-> 1, continue_ |-> TRUE,
     events |-> <<>>, stops |-> stops,
     errors |-> <<>>, decision |-> decision, max_lines |-> max_lines,
     ec |-> "none"]

Back(p) == p.stack_[Len(p.stack_)]
Pop(p) == [p EXCEPT !.stack_ = SubSeq(@, 1, Len(@) - 1)]

\* continue_ = handler_.e(...)
Handle(p, e) ==
    [p EXCEPT !.events = Append(@, e),
              !.continue_ = (Len(p.events) + 1) \notin p.stops]

\* err_handler_(code, *this); ec = code; continue_ = false; return;
Fail(p, code) ==
    [p EXCEPT !.errors = Append(@, [code |-> code, line |-> p.line_,
                                    column |-> p.column_]),
              !.ec = code,
              !.continue_ = FALSE]

\* before_field(): nothing with the n_rows mapping
before_field(p) == p

before_multi_valued_field(p) ==
    Handle([p EXCEPT !.stack_ = Append(@, "subfields")], "begin_array")

after_field(p) ==
    LET p1 == IF Back(p) = "subfields" THEN Handle(Pop(p), "end_array") ELSE p
    IN  [p1 EXCEPT !.column_index_ = @ + 1]

before_record(p) ==
    IF Back(p) = "data" THEN Handle(p, "begin_array") ELSE p

after_record(p) ==
    LET p1 == IF Back(p) \in {"data", "subfields"} THEN Handle(p, "end_array") ELSE p
    IN  [p1 EXCEPT !.column_index_ = 0]

\* end_value(value, false) without column types
end_value(p) == Handle(p, "string_value")

end_unquoted_string_value(p) ==
    IF Back(p) \in {"data", "subfields"} THEN end_value(p) ELSE p

end_quoted_string_value(p) ==
    IF Back(p) \in {"data", "subfields"} THEN end_value(p)
    ELSE Fail(p, "invalid_csv_text")

\* before_field() unless in subfields
BeforeFieldOutsideSubfields(p) ==
    IF Back(p) # "subfields" THEN before_field(p) ELSE p

after_newline(p) ==
    IF p.column_index_ > 0 \/ Len(p.value_buffer_) > 0
    THEN after_field(end_unquoted_string_value(BeforeFieldOutsideSubfields(p)))
    ELSE p

after_newline_between_fields(p) ==
    IF p.column_index_ > 0 \/ Len(p.value_buffer_) > 0
    THEN LET p1 == end_quoted_string_value(BeforeFieldOutsideSubfields(p))
         IN  IF p1.ec # "none" THEN p1 ELSE after_field(p1)
    ELSE p

Advance(p) == [p EXCEPT !.column_ = @ + 1, !.input_ptr_ = @ + 1]

\* push_state(state_); state_ = csv_parse_state::cr;
push_state(p) ==
    [p EXCEPT !.state_stack_ = Append(@, p.state_), !.state_ = "cr"]

\* state_ = pop_state(); JSONCONS_ASSERT(!state_stack_.empty()) throws when
\* the stack of states is empty
pop_state(p) ==
    IF p.state_stack_ = <<>>
    THEN [p EXCEPT !.ec = "assertion_failed", !.continue_ = FALSE]
    ELSE [p EXCEPT !.state_ = p.state_stack_[Len(p.state_stack_)],
                   !.state_stack_ = SubSeq(@, 1, Len(@) - 1)]

\* ++line_; column_ = 1;
NextLine(p) == [p EXCEPT !.line_ = @ + 1, !.column_ = 1]

\* a field or subfield delimiter met in unquoted_string or between_fields
BeforeDelimiter(p, c) ==
    IF Back(p) # "subfields"
    THEN IF c = subfield_delimiter
         THEN before_multi_valued_field(before_field(p))
         ELSE before_field(p)
    ELSE p
AfterDelimiter(p, c) ==
    [(IF c = field_delimiter THEN after_field(p) ELSE p)
        EXCEPT !.state_ = "before_unquoted_string"]

\* a branch at the end of the input that closes nothing and leaves
\* continue_ as it is
AtEndOfInput_continuing(p) == p

\* parse_some(ec): the branch taken at the end of the input
AtEndOfInput(p) ==
    LET p0 == IF p.state_ = "before_unquoted_string"
              THEN [p EXCEPT !.value_buffer_ = <<>>] ELSE p
        p1 == CASE p.state_ \in {"before_unquoted_string", "unquoted_string"} ->
                      IF p0.column_index_ > 0 \/ Len(p0.value_buffer_) > 0
                      THEN after_field(end_unquoted_string_value(
                                          BeforeFieldOutsideSubfields(p0)))
                      ELSE p0
                 [] p.state_ = "escaped_value" ->
                      LET q1 == end_quoted_string_value(BeforeFieldOutsideSubfields(p0))
                      IN  IF q1.ec # "none" THEN q1 ELSE after_field(q1)
                 [] OTHER -> p0
    IN  IF p1.ec # "none" THEN p1
        ELSE LET p2 == IF p1.column_index_ > 0 THEN after_record(p1) ELSE p1
                 p3 == IF Back(p2) \in {"header", "data"} THEN Pop(p2) ELSE p2
                 p4 == Handle(p3, "end_array")
             IN  IF ~(Len(p4.stack_) = 1 /\ Back(p4) = "initial")
                 THEN Fail(p4, "unexpected_eof")
                 ELSE [Pop(p4) EXCEPT !.events = Append(@, "flush"),
                                      !.continue_ = FALSE]

\* the check of max_lines at the end of the loop's body
CheckLines(p) ==
    IF p.max_lines # 0 /\ p.line_ > p.max_lines
    THEN [p EXCEPT !.state_ = "done", !.continue_ = FALSE]
    ELSE p

\* parse_some(ec): one pass of the loop's body; a pass that fails returns
\* before the check of max_lines
Pass(p) ==
    LET c == p.input[p.input_ptr_]
    IN  CASE p.state_ = "cr" ->
               LET p1 == pop_state(NextLine(p))
               IN  IF p1.ec # "none" THEN p1
                   ELSE CheckLines(IF c = newline
                                   THEN [p1 EXCEPT !.input_ptr_ = @ + 1] ELSE p1)
          [] p.state_ = "start" ->
               CheckLines([Handle(p, "begin_array")
                              EXCEPT !.state_ = "expect_comment_or_record"])
          [] p.state_ = "expect_comment_or_record" ->
               CheckLines([p EXCEPT !.value_buffer_ = <<>>, !.state_ = "expect_record"])
          [] p.state_ = "expect_record" ->
               CheckLines(
                 IF c = newline
                 THEN [p EXCEPT !.line_ = @ + 1, !.column_ = 1,
                                !.state_ = "expect_comment_or_record",
                                !.input_ptr_ = @ + 1]
                 ELSE IF c = carriage_return
                 THEN push_state([NextLine(p)
                                    EXCEPT !.state_ = "expect_comment_or_record",
                                           !.input_ptr_ = @ + 1])
                 ELSE IF c = quote_char
                 THEN Advance([before_record(p) EXCEPT !.value_buffer_ = <<>>,
                                                       !.state_ = "quoted_string"])
                 ELSE [before_record(p) EXCEPT !.state_ = "unquoted_string"])
          [] p.state_ = "before_unquoted_string" ->
               CheckLines([p EXCEPT !.value_buffer_ = <<>>, !.state_ = "unquoted_string"])
          [] p.state_ = "unquoted_string" ->
               CheckLines(
                 IF c \in {newline, carriage_return}
                 THEN [after_newline(p) EXCEPT !.state_ = "end_record"]
                 ELSE IF c \in {field_delimiter, subfield_delimiter}
                 THEN Advance(AfterDelimiter(
                         end_unquoted_string_value(BeforeDelimiter(p, c)), c))
                 ELSE IF c = quote_char
                 THEN Advance([p EXCEPT !.value_buffer_ = <<>>,
                                        !.state_ = "quoted_string"])
                 ELSE Advance([p EXCEPT !.value_buffer_ = Append(@, c)]))
          [] p.state_ = "quoted_string" ->
               CheckLines(
                 IF c = quote_char
                 THEN Advance([p EXCEPT !.state_ = "escaped_value"])
                 ELSE Advance([p EXCEPT !.value_buffer_ = Append(@, c)]))
          [] p.state_ = "escaped_value" ->
               CheckLines(
                 IF c = quote_char
                 THEN Advance([p EXCEPT !.value_buffer_ = Append(@, c),
                                        !.state_ = "quoted_string"])
                 ELSE [p EXCEPT !.state_ = "between_fields"])
          [] p.state_ = "between_fields" ->
               IF c \in {newline, carriage_return}
               THEN LET p1 == after_newline_between_fields(p)
                    IN  IF p1.ec # "none" THEN p1
                        ELSE CheckLines([p1 EXCEPT !.state_ = "end_record"])
               ELSE IF c \in {field_delimiter, subfield_delimiter}
               THEN LET p1 == end_quoted_string_value(BeforeDelimiter(p, c))
                    IN  IF p1.ec # "none" THEN p1
                        ELSE CheckLines(Advance(AfterDelimiter(p1, c)))
               ELSE CheckLines(Advance(p))
          [] p.state_ = "end_record" ->
               IF c = newline
               THEN CheckLines([after_record([p EXCEPT !.line_ = @ + 1, !.column_ = 1,
                                     !.state_ = "expect_comment_or_record"])
                                  EXCEPT !.input_ptr_ = @ + 1])
               ELSE IF c = carriage_return
               THEN CheckLines([push_state(after_record(
                                     [NextLine(p) EXCEPT
                                        !.state_ = "expect_comment_or_record"]))
                                  EXCEPT !.input_ptr_ = @ + 1])
               ELSE Fail(p, "invalid_csv_text")
          [] OTHER -> Fail(p, "invalid_state")

\* the loop of parse_some(ec)
RECURSIVE Loop(_)
Loop(p) ==
    IF p.input_ptr_ <= Len(p.input) /\ p.continue_ /\ p.ec = "none"
    THEN Loop(Pass(p))
    ELSE p

\* void parse_some(std::error_code& ec), called with a clear ec
parse_some_ec(p) ==
    LET p0 == [p EXCEPT !.ec = "none"]
    IN  IF p0.input_ptr_ = Len(p0.input) + 1 /\ p0.continue_
        THEN LET p1 == AtEndOfInput(p0)
             IN  IF p1.ec # "none" THEN p1 ELSE Loop(p1)
        ELSE Loop(p0)

CsvResult(op, p, before) ==
    [op |-> op, out |-> p.ec, line |-> p.line_, column |-> p.column_,
     failed |-> Len(p.errors) > Len(before.errors)]

\* source_exhausted()
source_exhausted(p) == p.input_ptr_ = Len(p.input) + 1

\* parse_some(ec) enters the branch of the end of the input with an empty
\* stack_: the switch on stack_.back() reads the top of an empty vector
ReadsEmptyStack(p) == p.stack_ = <<>> /\ p.continue_ /\ source_exhausted(p)

\* what an empty stack_ reads as: back() is any mode, and size() is not 1
GarbageStacks == {<<mode, mode>> : mode \in {"initial", "header", "data", "subfields"}}

\* the outcomes of parse_some(ec): one, unless stack_.back() is read on an
\* empty stack_, which is undefined
ParseOutcomes(p) ==
    IF ReadsEmptyStack(p)
    THEN {[parse_some_ec([p EXCEPT !.stack_ = g]) EXCEPT !.stack_ = <<>>] :
             g \in GarbageStacks}
    ELSE {parse_some_ec(p)}

\* parse_some(ec)
Call_parse_some_ec ==
    /\ \E p \in ParseOutcomes(store) : store' = p
    /\ res' = CsvResult("parse_some_ec", store', store)
    /\ UNCHANGED calls

\* void parse_some(): throws ser_error(ec, line_, column_) when ec is set
Call_parse_some ==
    /\ \E p \in ParseOutcomes(store) : store' = p
    /\ res' = CsvResult("parse_some", store', store)
    /\ UNCHANGED calls

\* void update(const CharT* data, size_t length); no input is fed to a
\* restarted parser whose parse has ended
Call_update(in) ==
    /\ calls < MaxUpdates
    /\ store.stack_ # <<>> \/ ~store.continue_
    /\ store' = [store EXCEPT !.input = in, !.input_ptr_ = 1]
    /\ res' = [op |-> "update"]
    /\ calls' = calls + 1

\* void restart(), called on a parser that its content handler or max_lines
\* stopped or whose parse has ended, when no error was reported; after the
\* end of the parse stack_ is empty, and the parser is restarted only with
\* its input exhausted
Call_restart ==
    /\ store.stack_ # <<>> \/ source_exhausted(store)
    /\ ~store.continue_
    /\ store.errors = <<>>
    /\ store' = [store EXCEPT !.continue_ = TRUE]
    /\ res' = [op |-> "restart"]
    /\ UNCHANGED calls

CsvInit ==
    /\ \E stops \in {{}, {MaxStop}} :
          \E decision \in BOOLEAN : \E max_lines \in {0, 1} :
             store = NewParser(stops, decision, max_lines)
    /\ res = [op |-> "init"]
    /\ calls = 0

CsvNext ==
    \E in \in Inputs(MaxInput) :
       \/ Call_update(in)
       \/ Call_parse_some_ec
       \/ Call_parse_some
       \/ Call_restart

SpecCsv == CsvInit /\ [][CsvNext]_vars

\* C20: when a call of parse_some meets malformed input, the error handler
\* is called with the error code and the parser's line and column; when the
\* handler asks to continue the call reports no error and the parser is not
\* stopped, when it asks to abort the parser is stopped and the call reports
\* the error, with that line and column.
C20_ErrorHandlerDecides ==
    res.op \in {"parse_some", "parse_some_ec"} /\ res.failed =>
       LET e == store.errors[Len(store.errors)]
       IN  /\ e.code \in {"invalid_csv_text", "unexpected_eof", "invalid_state"}
           /\ e.line = store.line_ /\ e.column = store.column_
           /\ store.decision => res.out = "none" /\ store.continue_
           /\ ~store.decision =>
                 /\ res.out = e.code /\ ~store.continue_
                 /\ res.line = e.line /\ res.column = e.column

(***************************************************************************)
(* Ownership of heap boxes.  The store holds the objects (obj) and the     *)
(* state of every heap box (heap): "free" before allocate(), "owned" from  *)
(* create() to destroy(), "released" after deallocate(), and "invalid"     *)
(* once deallocate() ran on a box that was not owned.  A heap storage      *)
(* carries the pointer to its box (ptr) and the box's allocator (alloc).   *)
(***************************************************************************)
MaxOwnCalls == 2
MaxBoxes == 4

\* the heap boxes: those create() allocates and those a pointer that no
\* constructor set may name
Boxes == 1..(MaxBoxes + MaxOwnCalls)
Allocators == {1, 2}

\* storage that holds no object: before construction and after destruction
NoObject == [kind |-> "no_object"]

\* the heap Value v with its box at p, allocated by al
Box(v, p, al) ==
    [f \in DOMAIN v \cup {"ptr", "alloc"} |->
       IF f = "ptr" THEN p ELSE IF f = "alloc" THEN al ELSE v[f]]

\* the object at b, or its referent, is alive and its heap box is owned
Readable(s, b) ==
    LET o == s.obj[ForwardsTo(s.obj, b)]
    IN  /\ s.obj[b] # NoObject /\ o # NoObject
        /\ IsHeapKind(o.kind) => o.ptr \in Boxes /\ s.heap[o.ptr] = "owned"

\* array_storage::destroy(): the destructor of the box's content runs and
\* deallocate() releases the box
destroy(heap, p) ==
    [heap EXCEPT ![p] = IF @ = "owned" THEN "released" ELSE "invalid"]

\* void Destroy_(): destroy_var of a heap storage releases its box unless
\* the pointer is null; the other storages, an external reference among
\* them, release nothing
Destroy_(s, a) ==
    IF IsHeapKind(s.obj[a].kind) /\ s.obj[a].ptr # 0
    THEN [s EXCEPT !.heap = destroy(@, s.obj[a].ptr)]
    ELSE s

\* what the pointer of a storage reads as when nothing was assigned to it:
\* the bytes the storage held before, a pointer when they were one
Uninitialized(o) == IF IsHeapKind(o.kind) THEN {o.ptr} ELSE {0} \cup Boxes

\* array_storage::create() in a storage constructed over the object at a:
\* the discriminator and the tag are set, a box is allocated and v is
\* constructed in it.  When allocate() throws, ptr_ is left as it was;
\* when the construction in the box throws, the box is deallocated and
\* ptr_ is left pointing to it.
create(s, a, v, al, throws) ==
    LET p == CHOOSE q \in Boxes : s.heap[q] = "free"
    IN  IF throws
        THEN { [s EXCEPT !.obj[a] = Box(v, q, al)] : q \in Uninitialized(s.obj[a]) }
             \cup { [s EXCEPT !.heap[p] = "released", !.obj[a] = Box(v, p, al)] }
        ELSE { [s EXCEPT !.heap[p] = "owned", !.obj[a] = Box(v, p, al)] }

\* void Init_(const basic_json_view& val) over the storage at a, from the
\* object at b: a heap storage is copy constructed into a new box under the
\* source's allocator
Init_owned(s, a, b, throws) ==
    LET v == Init_(s.obj, s.obj[b])
    IN  IF IsHeapKind(v.kind)
        THEN create(s, a, v, s.obj[ForwardsTo(s.obj, b)].alloc, throws)
        ELSE { [s EXCEPT !.obj[a] = v] }

\* a copy assignment without the test for self assignment
copy_assign_unguarded(s, dst, src, throws) ==
    Init_owned(Destroy_(s, dst), dst, src, throws)

\* basic_json_view& operator=(const basic_json_view& val)
copy_assign(s, dst, src, throws) ==
    IF dst # src THEN Init_owned(Destroy_(s, dst), dst, src, throws) ELSE {s}

\* void Init_rv_(basic_json_view&& val) over the storage at dst
Init_rv_owned(s, dst, src) ==
    IF IsHeapKind(s.obj[src].kind)
    THEN { [s EXCEPT !.obj = swap([@ EXCEPT ![dst] = NullV("none")], dst, src)] }
    ELSE Init_owned(s, dst, src, FALSE)

OwnResult(op, a, src, threw, al) ==
    [op |-> op, a |-> a, src |-> src, threw |-> threw, alloc |-> al]

\* a copy from the object at src constructs a heap box
Allocates(src) == IsHeapKind(Init_(store.obj, store.obj[src]).kind)

\* basic_json_view(const basic_json_view& other) at the free address dst;
\* when it throws no object has been constructed
OwnCopyConstruct(dst, src, throws) ==
    /\ calls < MaxOwnCalls
    /\ store.obj[dst] = NoObject /\ Readable(store, src)
    /\ ~IsReferredTo(store.obj, dst)
    /\ \E s \in Init_owned(store, dst, src, throws) :
          store' = IF throws /\ Allocates(src)
                   THEN [s EXCEPT !.obj[dst] = NoObject] ELSE s
    /\ res' = OwnResult("copy_construct", dst, src, throws /\ Allocates(src), 0)
    /\ calls' = calls + 1

\* basic_json_view& operator=(const basic_json_view& val).  When val is
\* read through the heap box Destroy_() released, the behaviour is
\* undefined.
OwnCopyAssign(dst, src, throws) ==
    /\ calls < MaxOwnCalls
    /\ store.obj[dst] # NoObject /\ Readable(store, src)
    /\ IF dst # src /\ IsHeapKind(store.obj[dst].kind)
                    /\ Reaches(store.obj, store.obj[src], dst)
       THEN \E s \in copy_assign(store, dst, src, throws)
                     \cup {[Destroy_(store, dst) EXCEPT !.obj[dst] = v] :
                             v \in Released} : store' = s
       ELSE \E s \in copy_assign(store, dst, src, throws) : store' = s
    /\ res' = OwnResult("copy_assign", dst, src,
                        throws /\ dst # src /\ Allocates(src), 0)
    /\ calls' = calls + 1

\* basic_json_view(basic_json_view&& other) at the free address dst
OwnMoveConstruct(dst, src) ==
    /\ calls < MaxOwnCalls
    /\ dst # src
    /\ store.obj[dst] = NoObject /\ Readable(store, src)
    /\ ~IsReferredTo(store.obj, dst)
    /\ \E s \in Init_rv_owned(store, dst, src) : store' = s
    /\ res' = OwnResult("move_construct", dst, src, FALSE, 0)
    /\ calls' = calls + 1

\* basic_json_view(basic_json_view&& other, const Allocator&) at the free
\* address dst: the allocator supplied is not looked at
OwnMoveConstructAlloc(dst, src, al) ==
    /\ calls < MaxOwnCalls
    /\ dst # src
    /\ store.obj[dst] = NoObject /\ Readable(store, src)
    /\ ~IsReferredTo(store.obj, dst)
    /\ \E s \in Init_rv_owned(store, dst, src) : store' = s
    /\ res' = OwnResult("move_construct_alloc", dst, src, FALSE, al)
    /\ calls' = calls + 1

\* the two objects are alive and neither is a View that reads the other
Exchangeable(a, b) ==
    /\ store.obj[a] # NoObject /\ store.obj[b] # NoObject
    /\ ~Reaches(store.obj, store.obj[a], b)
    /\ ~Reaches(store.obj, store.obj[b], a)

\* basic_json_view& operator=(basic_json_view&& val)
OwnMoveAssign(dst, src) ==
    /\ calls < MaxOwnCalls
    /\ Exchangeable(dst, src)
    /\ store' = IF dst # src
                THEN [store EXCEPT !.obj = swap(@, dst, src)] ELSE store
    /\ res' = OwnResult("move_assign", dst, src, FALSE, 0)
    /\ calls' = calls + 1

\* void swap(basic_json_view& other)
OwnSwap(a, b) ==
    /\ calls < MaxOwnCalls
    /\ Exchangeable(a, b)
    /\ store' = [store EXCEPT !.obj = swap(@, a, b)]
    /\ res' = OwnResult("swap", a, b, FALSE, 0)
    /\ calls' = calls + 1

\* void create_object_implicitly(): *this = basic_json_view(object(
\* Allocator()), tag()).  The temporary is constructed, exchanged with this
\* object and destroyed holding the empty object.
OwnCreateObjectImplicitly(a, throws) ==
    /\ calls < MaxOwnCalls
    /\ store.obj[a].kind = "empty_object_value"
    /\ \E s \in create(store, a, create_object_implicitly(store.obj, store.obj[a]),
                       1, throws) :
          store' = IF throws THEN [s EXCEPT !.obj[a] = store.obj[a]] ELSE s
    /\ res' = OwnResult("create_object_implicitly", a, a, throws, 0)
    /\ calls' = calls + 1

\* ~basic_json_view(): Destroy_() and the end of the object's lifetime; no
\* View refers to the object destroyed
OwnDestroy(a) ==
    /\ calls < MaxOwnCalls
    /\ store.obj[a] # NoObject
    /\ ~IsReferredTo(store.obj, a)
    /\ store' = [Destroy_(store, a) EXCEPT !.obj[a] = NoObject]
    /\ res' = OwnResult("destroy", a, a, FALSE, 0)
    /\ calls' = calls + 1

\* the Values of the first two objects
OwnValues ==
    { Int64V(-1, "none"), EmptyObjectV("none"), StringV(<<1>>, "string"),
      StringV(LongText, "none"), ByteStringV(<<1, 2>>, "base64"),
      ArrayV(<<Int64V(0, "none")>>, "none"),
      ObjectV(<<KeyValue(<<1>>, Int64V(0, "none"))>>, "none") }

OwnTargets == { Int64V(0, "none"), StringV(LongText, "datetime"), ArrayV(<<>>, "none") }

\* the object at a constructed with the Value v under the allocator al
Constructed(s, a, v, al) ==
    IF IsHeapKind(v.kind)
    THEN CHOOSE t \in create(s, a, v, al, FALSE) : TRUE
    ELSE [s EXCEPT !.obj[a] = v]

OwnInit ==
    /\ \E x \in OwnValues : \E y \in OwnTargets :
          LET s0 == [obj |-> [a \in Addr |-> NoObject],
                     heap |-> [p \in Boxes |-> "free"]]
              s2 == Constructed(Constructed(s0, 1, x, 1), 2, y, 2)
          IN  \E z \in {ConstPointerV(s2.obj, 1), ConstPointerV(s2.obj, 2), NoObject} :
                 store = [s2 EXCEPT !.obj[3] = z]
    /\ res = [op |-> "init"]
    /\ calls = 0

OwnNext ==
    \E a \in Addr : \E b \in Addr : \E throws \in BOOLEAN : \E al \in Allocators :
       \/ OwnCopyConstruct(a, b, throws)
       \/ OwnCopyAssign(a, b, throws)
       \/ OwnMoveConstruct(a, b)
       \/ OwnMoveConstructAlloc(a, b, al)
       \/ OwnMoveAssign(a, b)
       \/ OwnSwap(a, b)
       \/ OwnCreateObjectImplicitly(a, throws)
       \/ OwnDestroy(a)

SpecOwn == OwnInit /\ [][OwnNext]_vars

\* C21: copy-assigning or move-assigning a Value to itself is a no-op for
\* every storage kind: discriminator, tag and contents are as before and no
\* heap box is released or allocated.
C21_SelfAssignmentIsNoOp ==
    [][ res'.op \in {"copy_assign", "move_assign"} /\ res'.a = res'.src
          => store' = store ]_vars

\* a heap Value has been copy-assigned to itself and owns its box
C21_Witness ==
    /\ res.op = "copy_assign" /\ res.a = res.src
    /\ IsHeapKind(store.obj[res.a].kind)
    /\ store.heap[store.obj[res.a].ptr] = "owned"

\* C22: a.swap(b) exchanges discriminator, tag and value of the two objects,
\* whatever their kinds, external reference and heap kinds included: a heap
\* box goes over with its pointer, none is allocated or released, no other
\* object changes, a second swap restores both objects, and a.swap(a)
\* changes nothing.
C22_SwapExchanges ==
    [][ res'.op = "swap" =>
          /\ store'.obj[res'.a] = store.obj[res'.src]
          /\ store'.obj[res'.src] = store.obj[res'.a]
          /\ \A c \in Addr \ {res'.a, res'.src} : store'.obj[c] = store.obj[c]
          /\ store'.heap = store.heap
          /\ swap(store'.obj, res'.a, res'.src) = store.obj ]_vars

\* a heap Value and an external reference have been swapped: the reference
\* is at the first address and the box is owned at the second
C22_Witness ==
    /\ res.op = "swap" /\ res.a # res.src
    /\ IsView(store.obj[res.a])
    /\ IsHeapKind(store.obj[res.src].kind)
    /\ store.heap[store.obj[res.src].ptr] = "owned"

\* the live objects that own the box p
Owners(s, p) ==
    {a \in Addr : IsHeapKind(s.obj[a].kind) /\ s.obj[a].ptr = p}

\* C23: whatever sequence of constructions, copies, moves, swaps,
\* assignments, implicit object creations and destructions ran, the
\* discriminator of every live object names the storage it holds, a heap
\* storage points to a box that is allocated and not released, every such
\* box has exactly one owner, and no box was released twice or released
\* without having been allocated.
C23_BoxesOwnedOnceReleasedOnce ==
    /\ \A a \in Addr : IsHeapKind(store.obj[a].kind) =>
          /\ store.obj[a].ptr \in Boxes
          /\ store.heap[store.obj[a].ptr] = "owned"
    /\ \A p \in Boxes :
          /\ store.heap[p] = "owned" => Cardinality(Owners(store, p)) = 1
          /\ store.heap[p] # "invalid"

\* C24: move construction with an allocator supplied that differs from the
\* allocator of the heap source constructs a deep copy in a new box under
\* the allocator supplied and leaves the source as it was.
C24_DifferingAllocatorCopies ==
    [][ /\ res'.op = "move_construct_alloc"
        /\ IsHeapKind(store.obj[res'.src].kind)
        /\ store.obj[res'.src].alloc # res'.alloc
        => /\ store'.obj[res'.src] = store.obj[res'.src]
           /\ store'.obj[res'.a].alloc = res'.alloc
           /\ store'.obj[res'.a].ptr # store.obj[res'.src].ptr
           /\ Unboxed(store'.obj[res'.a]).kind = store.obj[res'.src].kind ]_vars

\* C25: a copy assignment a = b whose source b is read through a itself, as
\* a View that refers to a or to an element of a does, leaves a holding the
\* Value b had before the assignment.
C25_AliasedCopyAssignKeepsValue ==
    [][ res'.op = "copy_assign" /\ res'.a # res'.src
        /\ Reaches(store, store[res'.src], res'.a)
        => store'[res'.a] = Init_(store, store[res'.src]) ]_vars

\* C26: an operation that takes a Value as const leaves it unchanged: the
\* source of merge(source) and of merge_or_update(source), read through the
\* const object_value(), is afterwards what it was, and an empty-object
\* source is still of kind empty_object_value.
C26_ConstSourceUnchanged ==
    [][ res'.op \in {"merge", "merge_or_update"} /\ res'.a # res'.src
        => store'[res'.src] = store[res'.src] ]_vars

\* the events up to i leave the arrays in opened open; -1 when an array is
\* ended that was not begun
RECURSIVE Opened(_, _, _)
Opened(ev, i, opened) ==
    IF i > Len(ev) THEN opened
    ELSE IF ev[i] = "begin_array" THEN Opened(ev, i + 1, opened + 1)
    ELSE IF ev[i] = "end_array"
    THEN IF opened = 0 THEN -1 ELSE Opened(ev, i + 1, opened - 1)
    ELSE Opened(ev, i + 1, opened)

\* the parse has ended without an error: flush has been called
Completed(p) ==
    /\ p.errors = <<>> /\ p.ec = "none"
    /\ \E i \in 1..Len(p.events) : p.events[i] = "flush"

\* C27: for every input, the empty one and one without a final newline
\* included, the events of a parse that ended without an error are well
\* nested, every array begun is ended, and flush is called once, last.
C27_EventsWellNested ==
    Completed(store) =>
       LET ev == store.events
       IN  /\ ev[Len(ev)] = "flush"
           /\ \A i \in 1..(Len(ev) - 1) : ev[i] # "flush"
           /\ Opened(ev, 1, 0) = 0

\* C29: parse_some does not read the top of an empty stack_, and once the
\* input is exhausted and the parse has ended, a restart() followed by
\* parse_some emits no event.
C29_RestartAfterEndIsQuiet ==
    [][ res'.op \in {"parse_some", "parse_some_ec"} =>
          /\ ~ReadsEmptyStack(store)
          /\ Completed(store) => store'.events = store.events ]_vars

(***************************************************************************)
(* finish_parse: the parser is given one input, with the line terminators  *)
(* \n, \r and \r\n, and finish_parse(ec) calls parse_some(ec) while         *)
(* continue_ holds.  A step is one pass of a loop.                         *)
(***************************************************************************)
MaxLineInput == 3
MaxRounds == 2

LineChars == {"a", ",", "r", "n"}

RECURSIVE LineInputs(_)
LineInputs(n) ==
    IF n = 0 THEN {<<>>}
    ELSE LineInputs(n - 1)
         \cup {Append(q, c) : q \in {r \in LineInputs(n - 1) : Len(r) = n - 1},
                              c \in LineChars}

\* the result of a step of finish_parse: where the call is (at the head of
\* its loop, in the loop of parse_some, or returned) and the number of calls
\* of parse_some it made
FinishResult(op, rounds) == [op |-> op, rounds |-> rounds]

\* the call is at while (continue_)
AtLoopHead == res.op \in {"update", "finish_parse"}

\* for (; (input_ptr_ < local_input_end) && continue_;); a pass that
\* reports an error returns
InLoop(p) == p.input_ptr_ <= Len(p.input) /\ p.continue_ /\ p.ec = "none"

\* finish_parse(ec): continue_ holds and parse_some(ec) is called; with the
\* input exhausted it takes the branch of the end of the input, after which
\* its loop has nothing to do, and otherwise it enters its loop
Call_parse_some_in_finish ==
    /\ AtLoopHead /\ store.continue_
    /\ IF source_exhausted(store)
       THEN /\ \E p \in ParseOutcomes(store) : store' = p
            /\ res' = FinishResult("finish_parse", Min2(res.rounds + 1, MaxRounds))
       ELSE /\ store' = [store EXCEPT !.ec = "none"]
            /\ res' = FinishResult("for", Min2(res.rounds + 1, MaxRounds))
    /\ UNCHANGED calls

\* one pass of the loop of parse_some(ec)
Loop_pass ==
    /\ res.op = "for" /\ InLoop(store)
    /\ store' = Pass(store)
    /\ UNCHANGED <<res, calls>>

\* the loop of parse_some(ec) ends and the call returns to finish_parse
Return_parse_some ==
    /\ res.op = "for" /\ ~InLoop(store)
    /\ res' = FinishResult("finish_parse", res.rounds)
    /\ UNCHANGED <<store, calls>>

\* the loop of finish_parse ends and the call returns
Return_finish_parse ==
    /\ AtLoopHead /\ ~store.continue_
    /\ res' = FinishResult("finished", res.rounds)
    /\ UNCHANGED <<store, calls>>

FinishInit ==
    /\ \E stops \in {{}, {MaxStop}} : \E max_lines \in {0, 1} :
          \E in \in LineInputs(MaxLineInput) :
             store = [NewParser(stops, FALSE, max_lines) EXCEPT !.input = in]
    /\ res = FinishResult("update", 0)
    /\ calls = 0

FinishNext ==
    \/ Call_parse_some_in_finish
    \/ Loop_pass
    \/ Return_parse_some
    \/ Return_finish_parse

\* finish_parse runs on by itself: nothing else is scheduled
SpecFinish == FinishInit /\ [][FinishNext]_vars /\ WF_vars(FinishNext)

\* the line terminators of an input without quotes: every \r, and every \n
\* that does not follow a \r
Terminators(in) ==
    Cardinality({i \in 1..Len(in) :
                   \/ in[i] = carriage_return
                   \/ in[i] = newline /\ (i = 1 \/ in[i - 1] # carriage_return)})

\* C28: the line counter advances by exactly one per line terminator, be it
\* \n, \r or \r\n: when the parse of an input with k terminators has ended,
\* line() is 1 + k, and column() is 1 when the input ends with a terminator.
C28_OneLinePerTerminator ==
    res.op = "finished" /\ Completed(store) =>
       /\ store.line_ = 1 + Terminators(store.input)
       /\ store.input # <<>>
             /\ store.input[Len(store.input)] \in {newline, carriage_return}
          => store.column_ = 1

====
